---------------------------- MODULE Spec2Model ----------------------------
(***************************************************************************)
(* A model of the DZI conversion service: the Pyramid Builder              *)
(* (src/dzi_converter.py, DZIConverter.convert and _convert_with_pil) and  *)
(* the Bulk Publisher (src/cloud_storage.py, S3Storage.upload_dzi).        *)
(*                                                                         *)
(* File and directory names are sequences of one-character strings, so     *)
(* that str(), int(), str.isdigit() and Python's code-point ordering of    *)
(* strings are computed and not assumed.                                   *)
(***************************************************************************)
EXTENDS Integers, Sequences, FiniteSets, TLC

(***************************************************************************)
(* Bounds of the model.                                                    *)
(***************************************************************************)
\* source images are MaxDim x MaxDim pixels at most (plus ScenarioImage)
MaxDim == 4
\* tile sizes 1..MaxTile (plus the default tile size for ScenarioImage)
MaxTile == 2
\* overlaps 0..MaxOverlap
MaxOverlap == 1
\* the tile files on disk when upload_dzi only enumerates
MaxEnumTiles == 3
\* the tile files on disk when upload_dzi runs its uploads
MaxUploadTiles == 1
\* the file counts 1..MaxPoolFiles of the uploads followed by counts (plus TierEdges)
MaxPoolFiles == 22
\* how many upload_file calls of one upload are followed by counts
MaxPoolStarts == 101
\* how many jobs are submitted
MaxJobs == 2
\* the images of the jobs are 1 x 1 to MaxJobDim x MaxJobDim pixels
MaxJobDim == 1
\* total_chunks of a chunked upload is at most MaxChunks
MaxChunks == 2
\* how many get_status requests are received
MaxPolls == 1

(***************************************************************************)
(* Program constants.                                                      *)
(***************************************************************************)
\* convert(tile_size: int = 256)
DefaultTileSize == 256
\* convert(overlap: int = 1)
DefaultOverlap == 1

\* the W=500, H=300 image of the specification's worked scenario
ScenarioImage == <<500, 300>>

\* the content of a file that does not exist
NoFile == [missing |-> TRUE]

(***************************************************************************)
(* Strings.                                                                *)
(***************************************************************************)
Digits == <<"0", "1", "2", "3", "4", "5", "6", "7", "8", "9">>

Letters == <<"a", "b", "c", "d", "e", "f", "g", "h", "i", "j", "k", "l", "m",
             "n", "o", "p", "q", "r", "s", "t", "u", "v", "w", "x", "y", "z">>

\* the code point of a character (Python compares strings by code point)
Ord(c) ==
    IF \E d \in 1..10 : Digits[d] = c
    THEN 47 + (CHOOSE d \in 1..10 : Digits[d] = c)
    ELSE IF \E l \in 1..26 : Letters[l] = c
    THEN 96 + (CHOOSE l \in 1..26 : Letters[l] = c)
    ELSE IF c = "_" THEN 95
    ELSE IF c = "-" THEN 45
    ELSE 46

RECURSIVE DecStr(_)
\* str(n) of a non-negative int, as in f"{col}" and str(level)
DecStr(n) ==
    IF n < 10 THEN <<Digits[n + 1]>>
    ELSE DecStr(n \div 10) \o <<Digits[(n % 10) + 1]>>

\* str.isdigit() on the ASCII names of the model
IsDigit(name) ==
    /\ Len(name) > 0
    /\ \A i \in 1..Len(name) : \E d \in 1..10 : Digits[d] = name[i]

RECURSIVE ParseInt(_)
\* int(name) of a name that isdigit()
ParseInt(name) ==
    IF Len(name) = 0 THEN 0
    ELSE 10 * ParseInt(SubSeq(name, 1, Len(name) - 1)) + (Ord(name[Len(name)]) - 48)

\* f".{format}"
FormatExt(fmt) ==
    IF fmt = "jpeg" THEN <<".", "j", "p", "e", "g">> ELSE <<".", "p", "n", "g">>

(***************************************************************************)
(* Arithmetic of the pyramid.                                              *)
(***************************************************************************)
Max(a, b) == IF a >= b THEN a ELSE b

Min(a, b) == IF a <= b THEN a ELSE b

\* a variant of CeilLog2 with the bug int(math.log2(n)): the floor
RECURSIVE FloorLog2(_)
FloorLog2(n) == IF n <= 1 THEN 0 ELSE 1 + FloorLog2(n \div 2)

RECURSIVE CeilLog2Rec(_)
CeilLog2Rec(n) == IF n <= 1 THEN 0 ELSE 1 + CeilLog2Rec((n + 1) \div 2)

\* math.ceil(math.log2(n)) for n >= 1
CeilLog2(n) == CeilLog2Rec(n)

\* math.ceil(a / b) for a >= 0, b >= 1
CeilDiv(a, b) == (a \div b) + (IF a % b = 0 THEN 0 ELSE 1)

\* a variant of LevelRange with the bug range(max_level): the finest level is lost
LevelRangeShort(max_level) == 0..(max_level - 1)

\* range(max_level + 1), the levels _convert_with_pil generates
LevelRange(max_level) == 0..max_level

\* scale = 2 ** (max_level - level)
Scale(max_level, level) == 2 ^ (max_level - level)

\* a variant of LevelSide with the bug width // scale: the size is rounded down
LevelSideFloor(side, scale) == side \div scale

\* math.ceil(width / scale), the rendered size of one side of a level
LevelSide(side, scale) == CeilDiv(side, scale)

\* a variant of GridCount with the bug level_width // tile_size: edge tiles are lost
GridCountFloor(level_side, tile_size) == level_side \div tile_size

\* math.ceil(level_width / tile_size), the number of tile columns (or rows)
GridCount(level_side, tile_size) == CeilDiv(level_side, tile_size)

\* f"{col}_{row}.{format}"
TileName(col, row, fmt) == DecStr(col) \o <<"_">> \o DecStr(row) \o FormatExt(fmt)

\* a variant of TileBox with the bug of a crop that is not clipped to the level
TileBoxUnclipped(col, row, tile_size, overlap, level_width, level_height) ==
    <<col * tile_size, row * tile_size,
      col * tile_size + tile_size + overlap, row * tile_size + tile_size + overlap>>

\* (x, y, x2, y2) of the crop of one tile
TileBox(col, row, tile_size, overlap, level_width, level_height) ==
    LET x == col * tile_size
        y == row * tile_size
    IN  <<x, y, Min(x + tile_size + overlap, level_width),
                Min(y + tile_size + overlap, level_height)>>

\* a variant of DziContent with Width and Height swapped
DziContentSwapped(fmt, overlap, tile_size, width, height) ==
    [Format |-> fmt, Overlap |-> overlap, TileSize |-> tile_size,
     Width |-> height, Height |-> width]

\* the attributes of the descriptor's XML
DziContent(fmt, overlap, tile_size, width, height) ==
    [Format |-> fmt, Overlap |-> overlap, TileSize |-> tile_size,
     Width |-> width, Height |-> height]

(***************************************************************************)
(* Directory listings and their ordering (S3Storage.upload_dzi).           *)
(***************************************************************************)
\* a < b for Python strings: the first differing code point decides, a proper
\* prefix is smaller
StrLess(a, b) ==
    \E k \in 1..(Min(Len(a), Len(b)) + 1) :
        /\ \A i \in 1..(k - 1) : a[i] = b[i]
        /\ \/ k > Len(a) /\ k <= Len(b)
           \/ k <= Len(a) /\ k <= Len(b) /\ Ord(a[k]) < Ord(b[k])

\* Path(name).suffix: from the last dot on, empty when there is none
SuffixOf(name) ==
    LET dots == {i \in 2..Len(name) : name[i] = "."}
    IN  IF dots = {} THEN << >>
        ELSE SubSeq(name, CHOOSE i \in dots : \A j \in dots : j <= i, Len(name))

\* "image/jpeg" if tile_file.suffix in ['.jpg', '.jpeg'] else "image/png"
ContentType(name) ==
    IF SuffixOf(name) \in {<<".", "j", "p", "g">>, <<".", "j", "p", "e", "g">>}
    THEN "image/jpeg" ELSE "image/png"

RECURSIVE Listings(_)
\* every order in which iterdir() may yield the entries S
Listings(S) ==
    IF S = {} THEN {<< >>}
    ELSE UNION {{<<x>> \o l : l \in Listings(S \ {x})} : x \in S}

\* a variant of LevelBefore with the bug of sorting the directories by name
LevelBeforeByName(a, b) == StrLess(a.name, b.name)

\* the order of level_dirs.sort(key=lambda x: x[0]), on (int(name), item)
LevelBefore(a, b) == a.num < b.num

\* the order of tile_files.sort(key=lambda x: x.name)
TileBefore(a, b) == StrLess(a, b)

\* list.sort puts x behind every element that is not greater (it is stable)
InsertLevel(sorted, x) ==
    LET later == {i \in 1..Len(sorted) : LevelBefore(x, sorted[i])}
    IN  IF later = {} THEN Append(sorted, x)
        ELSE LET p == CHOOSE i \in later : \A j \in later : i <= j
             IN  SubSeq(sorted, 1, p - 1) \o <<x>> \o SubSeq(sorted, p, Len(sorted))

RECURSIVE SortLevels(_)
SortLevels(l) ==
    IF Len(l) = 0 THEN << >>
    ELSE InsertLevel(SortLevels(SubSeq(l, 1, Len(l) - 1)), l[Len(l)])

InsertTile(sorted, x) ==
    LET later == {i \in 1..Len(sorted) : TileBefore(x, sorted[i])}
    IN  IF later = {} THEN Append(sorted, x)
        ELSE LET p == CHOOSE i \in later : \A j \in later : i <= j
             IN  SubSeq(sorted, 1, p - 1) \o <<x>> \o SubSeq(sorted, p, Len(sorted))

RECURSIVE SortTiles(_)
SortTiles(l) ==
    IF Len(l) = 0 THEN << >>
    ELSE InsertTile(SortTiles(SubSeq(l, 1, Len(l) - 1)), l[Len(l)])

RECURSIVE SortByName(_)
\* sorted(paths) of the entries of one directory: by name, as strings
SortByName(names) ==
    IF names = {} THEN << >>
    ELSE LET first == CHOOSE n \in names : \A m \in names \ {n} : StrLess(n, m)
         IN  <<first>> \o SortByName(names \ {first})

\* An upload unit (local_path, cloud_key, content_type).  local_path and cloud_key
\* are both formatted from the kind of the file, its level directory and its name.
DziUnit == [kind |-> "dzi", dir |-> << >>, name |-> << >>,
            content_type |-> "application/xml"]

ThumbnailUnit == [kind |-> "thumbnail", dir |-> << >>, name |-> << >>,
                  content_type |-> "image/jpeg"]

TileUnit(dir, name) == [kind |-> "tile", dir |-> dir, name |-> name,
                        content_type |-> ContentType(name)]

\* the (int(item.name), item) pairs of the entries that are numeric directories, in
\* the order of the listing
LevelDirsOf(listing) ==
    LET keep == SelectSeq(listing, LAMBDA e : e.is_dir /\ IsDigit(e.name))
    IN  [i \in 1..Len(keep) |-> [num |-> ParseInt(keep[i].name), name |-> keep[i].name]]

RECURSIVE TileUnitsOf(_, _)
\* the tiles of the sorted level directories, each directory's files sorted by name
TileUnitsOf(sorted_dirs, file_listing) ==
    IF Len(sorted_dirs) = 0 THEN << >>
    ELSE LET d == sorted_dirs[1].name
             files == SortTiles(file_listing[d])
         IN  [i \in 1..Len(files) |-> TileUnit(d, files[i])]
                \o TileUnitsOf(SubSeq(sorted_dirs, 2, Len(sorted_dirs)), file_listing)

\* expected_levels - actual_levels
MissingLevels(levels_found) ==
    IF levels_found = {} THEN {}
    ELSE LET lo == CHOOSE n \in levels_found : \A m \in levels_found : n <= m
             hi == CHOOSE n \in levels_found : \A m \in levels_found : n >= m
         IN  (lo..hi) \ levels_found

(***************************************************************************)
(* The worker pool and the aggregation (S3Storage.upload_dzi).             *)
(***************************************************************************)
\* max_workers, from the number of files
MaxWorkers(total_files) ==
    IF total_files > 50000 THEN 100
    ELSE IF total_files > 10000 THEN 50
    ELSE IF total_files > 1000 THEN 30
    ELSE 20

\* a variant of WorkerFree with the bug of one thread per file
WorkerFreeUnbounded(n_running, workers) == TRUE

\* ThreadPoolExecutor(max_workers=max_workers) runs a queued call only on one of
\* its max_workers threads
WorkerFree(n_running, workers) == n_running < workers

\* what can happen to one upload_file call
Causes == {"ok", "missing", "denied", "timeout"}

\* error_msg of a failed upload: its text, and the keywords the text contains.
\*   missing: f"File not found: {local_path}"
\*   denied:  the store's AccessDenied answer (HTTP 403 body, or botocore's ClientError)
\*   timeout: the transport's connect/read timeout
ErrorMsg(cause) ==
    [text |-> cause,
     words |-> IF cause = "denied" THEN {"AccessDenied"}
               ELSE IF cause = "timeout" THEN {"timeout"}
               ELSE {}]

NoMsg == [text |-> "None", words |-> {}]

\* upload_file's return value: (True, cloud_key) or (False, (cloud_key, error_msg))
UploadResult(unit, cause) ==
    [success |-> cause = "ok",
     cloud_key |-> unit,
     error_msg |-> IF cause = "ok" THEN NoMsg ELSE ErrorMsg(cause)]

\* the error_type the summary gives an error_msg
ErrorType(error_msg) ==
    IF "AccessDenied" \in error_msg.words THEN "AccessDenied"
    ELSE IF "InvalidAccessKeyId" \in error_msg.words \/ "NoCredentialsError" \in error_msg.words
    THEN "Authentication"
    ELSE IF "NoSuchBucket" \in error_msg.words THEN "BucketNotFound"
    ELSE IF "Network" \in error_msg.words \/ "timeout" \in error_msg.words THEN "Network"
    ELSE "Other"

\* error_types: error_type |-> count, over the failures that have a message
ErrorTypes(failed) ==
    LET types == {ErrorType(failed[i][2]) : i \in {j \in 1..Len(failed) : failed[j][2] # NoMsg}}
    IN  [t \in types |->
            Cardinality({i \in 1..Len(failed) : failed[i][2] # NoMsg /\ ErrorType(failed[i][2]) = t})]

\* a variant of LoopDone with the bug of leaving the loop at the first failure
LoopDoneFailFast(n_handled, total, failed) == n_handled = total \/ Len(failed) > 0

\* `for i, future in enumerate(asyncio.as_completed(futures))` ends when every
\* future has been awaited
LoopDone(n_handled, total, failed) == n_handled = total

\* a variant of ProgressArg with the bug of reporting the files still to be settled
ProgressArgRemaining(n_uploaded, n_handled, total) == <<total - n_handled, total>>

\* the argument of on_progress(uploaded / total_files), as numerator and denominator
ProgressArg(n_uploaded, n_handled, total) == <<n_uploaded, total>>

\* a variant of AggregateError that reports the uploaded count as the failure count
AggregateErrorUploaded(failed, total) ==
    [kind |-> "Exception", failed |-> total - Len(failed), total |-> total]

\* Exception(f"Failed to upload {len(failed_uploads)} files out of {total_files}")
AggregateError(failed, total) ==
    [kind |-> "Exception", failed |-> Len(failed), total |-> total]

\* a variant of UseHttpPut that looks at the public flag only
UseHttpPutAnyPublic(public, has_access_key, has_secret_key) == public

\* use_http_put = self.is_public and not (self.access_key and self.secret_key)
UseHttpPut(public, has_access_key, has_secret_key) ==
    public /\ ~(has_access_key /\ has_secret_key)

\* ValueError("No credentials provided and bucket is not public. Cannot upload.")
ConfigError == [kind |-> "ValueError", failed |-> 0, total |-> 0]

\* (dzi_url, thumbnail_url)
UploadUrls == [kind |-> "return", dzi_url |-> DziUnit, thumbnail_url |-> ThumbnailUnit]

NoOutcome == [kind |-> "none"]

(***************************************************************************)
(* The exceptions of DZIConverter.convert.                                 *)
(***************************************************************************)
NoError == [kind |-> "none", text |-> ""]

\* ValueError: the file format needs pyvips, which cannot be loaded
VipsRequired == [kind |-> "ValueError", text |-> "format requires pyvips (libvips)"]

\* ValueError: libvips cannot read the file for want of JPEG2000 support
Jpeg2000Missing == [kind |-> "ValueError", text |-> "JPEG2000 support is missing"]

\* any other exception of pyvips, raised again as it is
VipsFailed == [kind |-> "pyvips.Error", text |-> "unable to load file"]

\* PIL cannot decode the source, or a file cannot be written
PilFailed == [kind |-> "OSError", text |-> "cannot identify image file"]

(***************************************************************************)
(* State.                                                                  *)
(***************************************************************************)
VARIABLES
    \* ---- DZIConverter.convert ----
    image,          \* <<W, H>>: image.size of the source file
    tile_size,      \* convert's parameters
    overlap,
    format,
    use_vips,       \* self.use_vips
    requires_vips,  \* the source file's extension is a whole-slide format
    cpc,            \* where convert is
    pil,            \* the locals of _convert_with_pil
    level_image,    \* level |-> <<level_width, level_height>> of each resize done
    \* ---- the job's output directory ----
    dzi_file,       \* the descriptor on disk, or NoFile
    tiles_dir,      \* whether {base_name}_files exists
    dir_files,      \* the names of the plain files directly under {base_name}_files
    level_dirs,     \* the names of the directories under {base_name}_files
    tiles,          \* the tile files on disk: [dir, name, box]
    thumbnail,      \* whether {base_name}_thumbnail.jpg is on disk
    \* ---- S3Storage ----
    access_key,     \* whether self.access_key is set (argument or environment)
    secret_key,     \* whether self.secret_key is set
    is_public,      \* self.is_public
    \* ---- S3Storage.upload_dzi ----
    upc,            \* where upload_dzi is
    files_to_upload,
    warnings,       \* what the enumeration warns of: [missing, empty]
    total_files,
    use_http_put,
    max_workers,
    started,        \* how many of the queued calls the executor has handed to a thread
    running,        \* the units whose upload_file call is running
    attempts,       \* unit |-> how many times upload_file was called on it
    results,        \* unit |-> what its upload_file call returned
    completed,      \* the units in the order in which their futures completed
    handled,        \* how many futures the as_completed loop has awaited
    uploaded,
    failed_uploads,
    progress_calls, \* the arguments of on_progress so far, as <<uploaded, total_files>>
    error_types,
    outcome,        \* what upload_dzi returned or raised
    pool,           \* the executor of a large upload, by counts: [queued, running, settled]
    \* ---- main.py ----
    conv_error,     \* the exception DZIConverter.convert raised: [kind, text]
    conversion_jobs,\* the job registry: job_id |-> ConversionStatus
    tasks,          \* the process_conversion calls given to background_tasks.add_task
    next_task,      \* the index in tasks of the next call to run
    run,            \* the process_conversion call that is running: [pc, job_id, input_path, provider]
    input_files,    \* UPLOAD_DIR: path |-> the bytes of the file
    chunk_uploads,  \* upload_id |-> [chunks, total_chunks, filename]
    chunk_files,    \* UPLOAD_DIR / "chunks": upload_id |-> (chunk_index |-> bytes)
    polls           \* the get_status requests received: [job_id, arrived, response]

convVars == <<image, tile_size, overlap, format, use_vips, requires_vips, cpc, pil,
              level_image, conv_error>>

diskVars == <<dzi_file, tiles_dir, dir_files, level_dirs, tiles, thumbnail>>

storageVars == <<access_key, secret_key, is_public>>

enumVars == <<files_to_upload, warnings, total_files>>

poolVars == <<started, running, attempts, results, completed>>

loopVars == <<handled, uploaded, failed_uploads, progress_calls>>

upVars == <<storageVars, upc, enumVars, use_http_put, max_workers, poolVars, loopVars,
            error_types, outcome, pool>>

jobVars == <<conversion_jobs, tasks, next_task, run, input_files>>

chunkVars == <<chunk_uploads, chunk_files>>

requestVars == <<chunkVars, polls>>

vars == <<convVars, diskVars, upVars, jobVars, requestVars>>

NoLocals == [width |-> 0, height |-> 0, max_level |-> 0, level |-> 0,
             level_width |-> 0, level_height |-> 0, cols |-> 0, rows |-> 0,
             col |-> 0, row |-> 0]

NoWarnings == [missing |-> {}, empty |-> {}]

NoPool == [queued |-> 0, running |-> 0, settled |-> 0]

NoRun == [pc |-> "none", job_id |-> "", input_path |-> <<"", "">>, provider |-> ""]

\* a process_conversion call has raised out of the background task
EscapedRun == [NoRun EXCEPT !.pc = "escaped"]

\* the server has received no request
NoJobs ==
    /\ conversion_jobs = << >>
    /\ tasks = << >>
    /\ next_task = 1
    /\ run = NoRun
    /\ input_files = << >>
    /\ chunk_uploads = << >>
    /\ chunk_files = << >>
    /\ polls = << >>

\* <<W, H, tile_size, overlap>> of the conversions of the model
ConvInputs ==
    {<<w, h, t, o>> : w \in 1..MaxDim, h \in 1..MaxDim, t \in 1..MaxTile, o \in 0..MaxOverlap}
        \cup {<<ScenarioImage[1], ScenarioImage[2], DefaultTileSize, DefaultOverlap>>}

\* the locals of upload_dzi before it is called
InitUploadLocals ==
    /\ files_to_upload = << >>
    /\ warnings = NoWarnings
    /\ total_files = 0
    /\ use_http_put = FALSE
    /\ max_workers = 0
    /\ started = 0
    /\ running = {}
    /\ attempts = << >>
    /\ results = << >>
    /\ completed = << >>
    /\ handled = 0
    /\ uploaded = 0
    /\ failed_uploads = << >>
    /\ progress_calls = << >>
    /\ error_types = << >>
    /\ outcome = NoOutcome
    /\ pool = NoPool

\* convert is called on a source image with an output directory of its own
\* (process_conversion gives every job OUTPUT_DIR / job_id); upload_dzi is not called
InitConv ==
    /\ \E i \in ConvInputs :
          /\ image = <<i[1], i[2]>>
          /\ tile_size = i[3]
          /\ overlap = i[4]
    /\ format \in {"jpeg", "png"}
    /\ use_vips \in BOOLEAN
    /\ requires_vips \in BOOLEAN
    /\ cpc = "convert"
    /\ pil = NoLocals
    /\ level_image = << >>
    /\ conv_error = NoError
    /\ NoJobs
    /\ dzi_file = NoFile
    /\ tiles_dir = FALSE
    /\ dir_files = {}
    /\ level_dirs = {}
    /\ tiles = {}
    /\ thumbnail = FALSE
    /\ access_key = FALSE
    /\ secret_key = FALSE
    /\ is_public = TRUE
    /\ upc = "idle"
    /\ InitUploadLocals

(***************************************************************************)
(* DZIConverter.convert                                                    *)
(***************************************************************************)
\* convert, up to the dispatch on self.use_vips.  A whole-slide format without
\* pyvips tries to load libvips; when that fails convert raises ValueError.
Convert ==
    /\ cpc = "convert"
    /\ IF requires_vips /\ ~use_vips
       THEN \E loaded \in BOOLEAN :
               /\ use_vips' = loaded
               /\ cpc' = IF loaded THEN "vips" ELSE "raised"
               /\ conv_error' = IF loaded THEN conv_error ELSE VipsRequired
       ELSE /\ cpc' = IF use_vips THEN "vips" ELSE "pil_open"
            /\ UNCHANGED <<use_vips, conv_error>>
    /\ UNCHANGED <<image, tile_size, overlap, format, requires_vips, pil, level_image>>
    /\ UNCHANGED <<diskVars, upVars>>
    /\ UNCHANGED <<jobVars, requestVars>>

\* _convert_with_vips: the pyramid is written by libvips' dzsave, which is not part
\* of this repository; its output is left out of the model.
ConvertWithVips ==
    /\ cpc = "vips"
    /\ \/ cpc' = "thumbnail" /\ UNCHANGED conv_error
       \/ cpc' = "raised" /\ conv_error' \in {Jpeg2000Missing, VipsFailed}
    /\ UNCHANGED <<image, tile_size, overlap, format, use_vips, requires_vips, pil,
                   level_image>>
    /\ UNCHANGED <<diskVars, upVars>>
    /\ UNCHANGED <<jobVars, requestVars>>

\* _convert_with_pil: Image.open, width, height = image.size, max_level
PilOpen ==
    /\ cpc = "pil_open"
    /\ pil' = [pil EXCEPT !.width = image[1], !.height = image[2],
                          !.max_level = CeilLog2(Max(image[1], image[2]))]
    /\ cpc' = "pil_dzi"
    /\ UNCHANGED <<image, tile_size, overlap, format, use_vips, requires_vips,
                   level_image>>
    /\ UNCHANGED <<diskVars, upVars>>
    /\ UNCHANGED <<conv_error, jobVars, requestVars>>

\* _convert_with_pil: the descriptor is written, tiles_dir is made
PilWriteDzi ==
    /\ cpc = "pil_dzi"
    /\ dzi_file' = DziContent(format, overlap, tile_size, pil.width, pil.height)
    /\ tiles_dir' = TRUE
    /\ pil' = [pil EXCEPT !.level = 0]
    /\ cpc' = "pil_level"
    /\ UNCHANGED <<image, tile_size, overlap, format, use_vips, requires_vips,
                   level_image, dir_files, level_dirs, tiles, thumbnail>>
    /\ UNCHANGED upVars
    /\ UNCHANGED <<conv_error, jobVars, requestVars>>

\* _convert_with_pil: one turn of `for level in range(max_level + 1)` up to the
\* tile loops: the level's directory, its size, its resized image and its grid
PilLevel ==
    /\ cpc = "pil_level"
    /\ IF pil.level \in LevelRange(pil.max_level)
       THEN LET scale == Scale(pil.max_level, pil.level)
                lw == LevelSide(pil.width, scale)
                lh == LevelSide(pil.height, scale)
            IN  /\ level_dirs' = level_dirs \cup {DecStr(pil.level)}
                /\ level_image' = (pil.level :> <<lw, lh>>) @@ level_image
                /\ pil' = [pil EXCEPT !.level_width = lw, !.level_height = lh,
                                      !.cols = GridCount(lw, tile_size),
                                      !.rows = GridCount(lh, tile_size),
                                      !.col = 0, !.row = 0]
                /\ cpc' = "pil_tile"
       ELSE /\ cpc' = "thumbnail"
            /\ UNCHANGED <<pil, level_dirs, level_image>>
    /\ UNCHANGED <<image, tile_size, overlap, format, use_vips, requires_vips,
                   dzi_file, tiles_dir, dir_files, tiles, thumbnail>>
    /\ UNCHANGED upVars
    /\ UNCHANGED <<conv_error, jobVars, requestVars>>

\* _convert_with_pil: one turn of `for col ... for row ...`: crop one tile and save
\* it; a file of the same path is overwritten
PilTile ==
    /\ cpc = "pil_tile"
    /\ IF pil.col < pil.cols /\ pil.row < pil.rows
       THEN LET dir == DecStr(pil.level)
                name == TileName(pil.col, pil.row, format)
                box == TileBox(pil.col, pil.row, tile_size, overlap,
                               pil.level_width, pil.level_height)
                lastRow == pil.row + 1 >= pil.rows
            IN  /\ tiles' = {t \in tiles : ~(t.dir = dir /\ t.name = name)}
                               \cup {[dir |-> dir, name |-> name, box |-> box]}
                /\ pil' = [pil EXCEPT !.row = IF lastRow THEN 0 ELSE pil.row + 1,
                                      !.col = IF lastRow THEN pil.col + 1 ELSE pil.col]
                /\ UNCHANGED cpc
       ELSE /\ pil' = [pil EXCEPT !.level = pil.level + 1]
            /\ cpc' = "pil_level"
            /\ UNCHANGED tiles
    /\ UNCHANGED <<image, tile_size, overlap, format, use_vips, requires_vips,
                   level_image, dzi_file, tiles_dir, dir_files, level_dirs, thumbnail>>
    /\ UNCHANGED upVars
    /\ UNCHANGED <<conv_error, jobVars, requestVars>>

\* _convert_with_pil raises: the source cannot be decoded, or a write fails
PilRaise ==
    /\ cpc \in {"pil_open", "pil_dzi", "pil_level", "pil_tile"}
    /\ cpc' = "raised"
    /\ conv_error' = PilFailed
    /\ UNCHANGED <<image, tile_size, overlap, format, use_vips, requires_vips, pil,
                   level_image>>
    /\ UNCHANGED <<diskVars, upVars>>
    /\ UNCHANGED <<jobVars, requestVars>>

\* _create_thumbnail, which prints and swallows its own failure; then convert returns
CreateThumbnail ==
    /\ cpc = "thumbnail"
    /\ thumbnail' \in BOOLEAN
    /\ cpc' = "returned"
    /\ UNCHANGED <<image, tile_size, overlap, format, use_vips, requires_vips, pil,
                   level_image, dzi_file, tiles_dir, dir_files, level_dirs, tiles>>
    /\ UNCHANGED upVars
    /\ UNCHANGED <<conv_error, jobVars, requestVars>>

NextConv ==
    \/ Convert
    \/ ConvertWithVips
    \/ PilOpen
    \/ PilWriteDzi
    \/ PilLevel
    \/ PilTile
    \/ PilRaise
    \/ CreateThumbnail

SpecPyramid == InitConv /\ [][NextConv]_vars

(***************************************************************************)
(* S3Storage.upload_dzi                                                    *)
(***************************************************************************)
\* the level directories and tile files the output directories of the model are
\* made of, when upload_dzi only enumerates and when it runs its uploads
EnumDirNames == {DecStr(0), DecStr(2), DecStr(10)}

EnumTileNames == {TileName(10, 0, "jpeg"), TileName(2, 0, "jpeg"), TileName(0, 0, "png")}

UploadDirNames == {DecStr(0)}

UploadTileNames == {TileName(0, 0, "jpeg"), TileName(1, 0, "jpeg")}

\* libvips' dzsave leaves this file next to the level directories
VipsProperties == <<"v", "i", "p", "s", "-", "p", "r", "o", "p", "e", "r", "t", "i",
                    "e", "s", ".", "x", "m", "l">>

\* convert has returned
IdleConv ==
    /\ image = <<1, 1>>
    /\ tile_size = DefaultTileSize
    /\ overlap = DefaultOverlap
    /\ format = "jpeg"
    /\ use_vips = FALSE
    /\ requires_vips = FALSE
    /\ cpc = "returned"
    /\ pil = NoLocals
    /\ level_image = << >>
    /\ conv_error = NoError

\* an output directory as a conversion leaves it, with at most n tile files
InitDisk(n, dirs, names) ==
    LET all == {[dir |-> d, name |-> f, box |-> <<0, 0, 1, 1>>] : d \in dirs, f \in names}
    IN  /\ dzi_file = DziContent("jpeg", DefaultOverlap, DefaultTileSize, 1, 1)
        /\ thumbnail \in BOOLEAN
        /\ tiles_dir \in BOOLEAN
        /\ level_dirs \in SUBSET dirs
        /\ tiles \in {ts \in SUBSET all : Cardinality(ts) <= n}
        /\ {t.dir : t \in tiles} \subseteq level_dirs
        /\ dir_files \in {{}, {VipsProperties}}
        /\ ~tiles_dir => level_dirs = {} /\ dir_files = {}

\* upload_dzi is called to enumerate an output directory
InitEnumerate ==
    /\ IdleConv
    /\ NoJobs
    /\ InitDisk(MaxEnumTiles, EnumDirNames, EnumTileNames)
    /\ access_key = FALSE
    /\ secret_key = FALSE
    /\ is_public = TRUE
    /\ upc = "enumerate"
    /\ InitUploadLocals

\* upload_dzi is called on a small output directory, on any S3Storage
InitUpload ==
    /\ IdleConv
    /\ NoJobs
    /\ InitDisk(MaxUploadTiles, UploadDirNames, UploadTileNames)
    /\ dir_files = {}
    /\ access_key \in BOOLEAN
    /\ secret_key \in BOOLEAN
    /\ is_public \in BOOLEAN
    /\ upc = "enumerate"
    /\ InitUploadLocals

\* what tiles_dir.iterdir() has to yield
DirEntries ==
    {[name |-> d, is_dir |-> TRUE] : d \in level_dirs}
        \cup {[name |-> f, is_dir |-> FALSE] : f \in dir_files}

\* the names of the files in level directory d
FilesIn(d) == {t.name : t \in {u \in tiles : u.dir = d}}

RECURSIVE FileListings(_)
\* every way in which level_dir.iterdir() may order the files of the directories ds
FileListings(ds) ==
    IF ds = {} THEN {<< >>}
    ELSE LET d == CHOOSE x \in ds : TRUE
         IN  {(d :> l) @@ fl : l \in Listings(FilesIn(d)), fl \in FileListings(ds \ {d})}

\* files_to_upload: the descriptor, the thumbnail when it exists, then the tiles of the
\* numeric directories, for one order of the directory listings
FilesToUpload(listing, file_listing) ==
    <<DziUnit>>
        \o (IF thumbnail THEN <<ThumbnailUnit>> ELSE << >>)
        \o (IF tiles_dir
            THEN TileUnitsOf(SortLevels(LevelDirsOf(listing)), file_listing)
            ELSE << >>)

\* upload_dzi, the collection of the files to upload
Enumerate ==
    /\ upc = "enumerate"
    /\ \E listing \in Listings(DirEntries) :
       \E file_listing \in FileListings({e.name : e \in {x \in DirEntries : x.is_dir}}) :
          LET levels_found == {ParseInt(d) : d \in {x \in level_dirs : IsDigit(x)}}
          IN  /\ files_to_upload' = FilesToUpload(listing, file_listing)
              /\ warnings' =
                    [missing |-> IF tiles_dir THEN MissingLevels(levels_found) ELSE {},
                     empty |-> IF tiles_dir
                               THEN {ParseInt(d) : d \in {x \in level_dirs :
                                                    IsDigit(x) /\ FilesIn(x) = {}}}
                               ELSE {}]
    /\ total_files' = Len(files_to_upload')
    /\ uploaded' = 0
    /\ upc' = "backend"
    /\ UNCHANGED <<convVars, diskVars, storageVars, use_http_put, max_workers, poolVars,
                   handled, failed_uploads, progress_calls, error_types, outcome, pool>>
    /\ UNCHANGED <<jobVars, requestVars>>

\* upload_dzi, the choice of the way to upload; ValueError without credentials on a
\* bucket that is not public
SelectBackend ==
    /\ upc = "backend"
    /\ use_http_put' = UseHttpPut(is_public, access_key, secret_key)
    /\ IF use_http_put' \/ (access_key /\ secret_key)
       THEN /\ upc' = "submit"
            /\ UNCHANGED outcome
       ELSE /\ upc' = "raised"
            /\ outcome' = ConfigError
    /\ UNCHANGED <<convVars, diskVars, storageVars, enumVars, max_workers, poolVars,
                   loopVars, error_types, pool>>
    /\ UNCHANGED <<jobVars, requestVars>>

\* upload_dzi: max_workers, the executor, and one queued upload_file call per file
Submit ==
    /\ upc = "submit"
    /\ max_workers' = MaxWorkers(total_files)
    /\ started' = 0
    /\ running' = {}
    /\ attempts' = [u \in 1..total_files |-> 0]
    /\ results' = << >>
    /\ completed' = << >>
    /\ failed_uploads' = << >>
    /\ upc' = "uploading"
    /\ UNCHANGED <<convVars, diskVars, storageVars, enumVars, use_http_put, handled,
                   uploaded, progress_calls, error_types, outcome, pool>>
    /\ UNCHANGED <<jobVars, requestVars>>

\* upload_dzi is inside `with ThreadPoolExecutor(...) as executor`: in its loop, or
\* leaving the block with a CancelledError
ExecutorOpen == upc \in {"uploading", "cancelling"}

\* a free thread of the executor takes the next queued call: upload_file begins
WorkerStart ==
    /\ ExecutorOpen
    /\ started < total_files
    /\ WorkerFree(Cardinality(running), max_workers)
    /\ started' = started + 1
    /\ running' = running \cup {started + 1}
    /\ attempts' = [attempts EXCEPT ![started + 1] = @ + 1]
    /\ UNCHANGED <<convVars, diskVars, storageVars, upc, enumVars, use_http_put,
                   max_workers, results, completed, loopVars, error_types, outcome, pool>>
    /\ UNCHANGED <<jobVars, requestVars>>

\* upload_file on unit u returns: the file is gone, or the store answers; every
\* exception is caught and returned as a failure
WorkerFinish(u) ==
    /\ ExecutorOpen
    /\ u \in running
    /\ \E cause \in Causes :
          results' = (u :> UploadResult(files_to_upload[u], cause)) @@ results
    /\ running' = running \ {u}
    /\ completed' = Append(completed, u)
    /\ UNCHANGED <<convVars, diskVars, storageVars, upc, enumVars, use_http_put,
                   max_workers, started, attempts, loopVars, error_types, outcome, pool>>
    /\ UNCHANGED <<jobVars, requestVars>>

\* one turn of the as_completed loop: a completed future is awaited, counted as
\* uploaded or appended to failed_uploads, and on_progress is called (the caller's
\* progress_callback catches its own exceptions)
AwaitResult ==
    /\ upc = "uploading"
    /\ ~LoopDone(handled, total_files, failed_uploads)
    /\ handled < Len(completed)
    /\ LET result == results[completed[handled + 1]]
       IN  /\ uploaded' = IF result.success THEN uploaded + 1 ELSE uploaded
           /\ failed_uploads' =
                 IF result.success THEN failed_uploads
                 ELSE Append(failed_uploads, <<result.cloud_key, result.error_msg>>)
    /\ handled' = handled + 1
    /\ progress_calls' =
          Append(progress_calls, ProgressArg(uploaded', handled', total_files))
    /\ UNCHANGED <<convVars, diskVars, storageVars, upc, enumVars, use_http_put,
                   max_workers, poolVars, error_types, outcome, pool>>

\* a turn of the loop of an upload_dzi called by itself: on_progress changes nothing
\* outside upload_dzi
HandleResult ==
    /\ AwaitResult
    /\ UNCHANGED <<jobVars, requestVars>>

\* after the loop: the error summary and the exception when an upload failed, the
\* two URLs otherwise
Aggregate ==
    /\ upc = "uploading"
    /\ LoopDone(handled, total_files, failed_uploads)
    /\ IF Len(failed_uploads) > 0
       THEN /\ error_types' = ErrorTypes(failed_uploads)
            /\ outcome' = AggregateError(failed_uploads, total_files)
            /\ upc' = "raised"
       ELSE /\ outcome' = UploadUrls
            /\ upc' = "returned"
            /\ UNCHANGED error_types
    /\ UNCHANGED <<convVars, diskVars, storageVars, enumVars, use_http_put, max_workers,
                   poolVars, loopVars, pool>>
    /\ UNCHANGED <<jobVars, requestVars>>

\* asyncio.CancelledError, which `except Exception` does not catch
CancelledError == [kind |-> "CancelledError", failed |-> 0, total |-> 0]

\* the task that runs upload_dzi is cancelled: CancelledError is raised at
\* `await future` and leaves the loop; the with block's exit is
\* executor.shutdown(wait=True)
Cancel ==
    /\ upc = "uploading"
    /\ ~LoopDone(handled, total_files, failed_uploads)
    /\ upc' = "cancelling"
    /\ UNCHANGED <<convVars, diskVars, storageVars, enumVars, use_http_put, max_workers,
                   poolVars, loopVars, error_types, outcome, pool>>
    /\ UNCHANGED <<jobVars, requestVars>>

\* shutdown(wait=True) returns when every queued call has been run and has
\* returned; the CancelledError then leaves upload_dzi
CancelExit ==
    /\ upc = "cancelling"
    /\ started = total_files
    /\ running = {}
    /\ outcome' = CancelledError
    /\ upc' = "raised"
    /\ UNCHANGED <<convVars, diskVars, storageVars, enumVars, use_http_put, max_workers,
                   poolVars, loopVars, error_types, pool>>
    /\ UNCHANGED <<jobVars, requestVars>>

NextEnumerate == Enumerate

SpecEnumerate == InitEnumerate /\ [][NextEnumerate]_vars

NextUpload ==
    \/ Enumerate
    \/ SelectBackend
    \/ Submit
    \/ WorkerStart
    \/ \E u \in 1..total_files : WorkerFinish(u)
    \/ HandleResult
    \/ Aggregate

SpecUpload == InitUpload /\ [][NextUpload]_vars

NextCancel ==
    \/ NextUpload
    \/ Cancel
    \/ CancelExit

\* upload_dzi on a small output directory, in a task that may be cancelled
SpecCancel == InitUpload /\ [][NextCancel]_vars

(***************************************************************************)
(* S3Storage.upload_dzi on many files: the executor by counts.  The units  *)
(* are not told apart; only how many are queued, running and settled.      *)
(***************************************************************************)
\* the file counts on both sides of every step of max_workers
TierEdges == {1000, 1001, 10000, 10001, 50000, 50001}

PoolTotals == (1..MaxPoolFiles) \cup TierEdges

\* upload_dzi has found total_files files and chosen the way to upload
InitPool ==
    /\ IdleConv
    /\ NoJobs
    /\ dzi_file = DziContent("jpeg", DefaultOverlap, DefaultTileSize, 1, 1)
    /\ thumbnail = TRUE
    /\ tiles_dir = TRUE
    /\ dir_files = {}
    /\ level_dirs = {}
    /\ tiles = {}
    /\ access_key = FALSE
    /\ secret_key = FALSE
    /\ is_public = TRUE
    /\ files_to_upload = << >>
    /\ warnings = NoWarnings
    /\ total_files \in PoolTotals
    /\ use_http_put = TRUE
    /\ max_workers = 0
    /\ started = 0
    /\ running = {}
    /\ attempts = << >>
    /\ results = << >>
    /\ completed = << >>
    /\ handled = 0
    /\ uploaded = 0
    /\ failed_uploads = << >>
    /\ progress_calls = << >>
    /\ error_types = << >>
    /\ outcome = NoOutcome
    /\ pool = NoPool
    /\ upc = "pool_submit"

\* upload_dzi: max_workers, the executor, and one queued upload_file call per file
PoolSubmit ==
    /\ upc = "pool_submit"
    /\ max_workers' = MaxWorkers(total_files)
    /\ pool' = [queued |-> total_files, running |-> 0, settled |-> 0]
    /\ upc' = "pool_run"
    /\ UNCHANGED <<convVars, diskVars, storageVars, enumVars, use_http_put, poolVars,
                   loopVars, error_types, outcome>>
    /\ UNCHANGED <<jobVars, requestVars>>

\* a free thread of the executor takes the next queued call
PoolStart ==
    /\ upc = "pool_run"
    /\ pool.queued > 0
    /\ total_files - pool.queued < MaxPoolStarts
    /\ WorkerFree(pool.running, max_workers)
    /\ pool' = [pool EXCEPT !.queued = @ - 1, !.running = @ + 1]
    /\ UNCHANGED <<convVars, diskVars, storageVars, upc, enumVars, use_http_put,
                   max_workers, poolVars, loopVars, error_types, outcome>>
    /\ UNCHANGED <<jobVars, requestVars>>

\* a running upload_file call returns
PoolFinish ==
    /\ upc = "pool_run"
    /\ pool.running > 0
    /\ pool' = [pool EXCEPT !.running = @ - 1, !.settled = @ + 1]
    /\ UNCHANGED <<convVars, diskVars, storageVars, upc, enumVars, use_http_put,
                   max_workers, poolVars, loopVars, error_types, outcome>>
    /\ UNCHANGED <<jobVars, requestVars>>

NextPool ==
    \/ PoolSubmit
    \/ PoolStart
    \/ PoolFinish

SpecPool == InitPool /\ [][NextPool]_vars

(***************************************************************************)
(* main.py: the job registry, the submissions and process_conversion.      *)
(* The process_conversion calls are followed one at a time, in the order   *)
(* in which they were added; requests are handled at any moment.           *)
(***************************************************************************)
\* str(uuid.uuid4())[:8]: eight hexadecimal digits drawn at random; two of them
JobIds == {"1f0c9a2e", "7be4d310"}

\* accepted suffixes (allowed_extensions), one read by PIL and one by libvips only
FileExts == {".png", ".svs"}

\* file_ext in {'.svs', '.ndpi', '.mrxs', '.vms', '.vmu', '.scn', '.bif'}
RequiresVips(ext) == ext \in {".svs", ".ndpi", ".mrxs", ".vms", ".vmu", ".scn", ".bif"}

\* provider == "s3" gives S3Storage, anything else OSSStorage
Providers == {"s3", "oss"}

\* the bytes of an uploaded file: none, or some
FileBodies == {<< >>, <<1>>}

\* image.size of the files given to process_conversion: square images
JobImages == {<<w, w>> : w \in 1..MaxJobDim}

\* a text without numbers in it
StrText(text) == [text |-> text, failed |-> 0, total |-> 0, words |-> {}]

\* str(e) of the exception convert raised
ConvErrorStr(e) == StrText(e.text)

\* str(e) of the exception upload_dzi raised; neither text holds an error category
UploadErrorStr(e) ==
    IF e.kind = "ValueError"
    THEN StrText("No credentials provided and bucket is not public. Cannot upload.")
    ELSE [text |-> "Failed to upload {failed} files out of {total}",
          failed |-> e.failed, total |-> e.total, words |-> {}]

\* a job message: a literal prefix and the text that follows it
JobMessage(prefix, str) == [prefix |-> prefix, str |-> str]

Plain(text) == JobMessage("", StrText(text))

NoUrl == [kind |-> "none"]

\* ConversionStatus(job_id=..., status=..., progress=..., message=...)
ConversionStatus(job_id, status, progress, message) ==
    [job_id |-> job_id, status |-> status, progress |-> progress, message |-> message,
     dzi_url |-> NoUrl, thumbnail_url |-> NoUrl]

\* a variant of NewJob with a status outside ConversionStatus's list
NewJobQueued(job_id, text) == ConversionStatus(job_id, "queued", 0, Plain(text))

\* the record upload_slide and complete_chunk_upload put in the registry
NewJob(job_id, text) == ConversionStatus(job_id, "pending", 0, Plain(text))

\* d[k] = v
Put(d, k, v) == [x \in DOMAIN d \cup {k} |-> IF x = k THEN v ELSE d[x]]

\* del d[k], and unlink of a file
Drop(d, k) == [x \in DOMAIN d \ {k} |-> d[x]]

\* a variant of Caught with the bug of a pipeline that handles ValueError only
CaughtValueErrorOnly(kind) == kind = "ValueError"

\* whether process_conversion's handlers, `except ValueError` and `except Exception`,
\* catch an exception of class kind: each class raised here derives from Exception
Caught(kind) == kind \in {"ValueError", "OSError", "pyvips.Error", "Exception"}

\* the message of the handler that catches an exception of class kind:
\* `except ValueError as e` sets str(e), `except Exception as e` sets f"Error: {str(e)}"
FailureMessage(kind, str) ==
    IF kind = "ValueError" THEN JobMessage("", str) ELSE JobMessage("Error: ", str)

\* total_progress = 50 + int(upload_progress * 50), upload_progress = n / d
UploadProgress(n, d) == 50 + (n * 50) \div d

\* update_progress(job_id, progress)
UpdateProgress(jobs, job_id, progress) ==
    IF job_id \in DOMAIN jobs
    THEN [jobs EXCEPT ![job_id].progress = Min(progress, 99)]
    ELSE jobs

\* the locals of upload_dzi at its call
ResetUploadLocals ==
    /\ files_to_upload' = << >>
    /\ warnings' = NoWarnings
    /\ total_files' = 0
    /\ use_http_put' = FALSE
    /\ max_workers' = 0
    /\ started' = 0
    /\ running' = {}
    /\ attempts' = << >>
    /\ results' = << >>
    /\ completed' = << >>
    /\ handled' = 0
    /\ uploaded' = 0
    /\ failed_uploads' = << >>
    /\ progress_calls' = << >>
    /\ error_types' = << >>
    /\ outcome' = NoOutcome
    /\ pool' = NoPool

\* <<access_key, secret_key, is_public>> of the server's environment: a public bucket
\* without keys, a private bucket with keys, a private bucket without keys
StorageConfigs == {<<FALSE, FALSE, TRUE>>, <<TRUE, TRUE, FALSE>>, <<FALSE, FALSE, FALSE>>}

\* the server has started: no request yet, nothing in OUTPUT_DIR, the storage
\* configuration in the environment
InitJob ==
    /\ IdleConv
    /\ NoJobs
    /\ dzi_file = NoFile
    /\ tiles_dir = FALSE
    /\ dir_files = {}
    /\ level_dirs = {}
    /\ tiles = {}
    /\ thumbnail = FALSE
    /\ \E c \in StorageConfigs :
          /\ access_key = c[1]
          /\ secret_key = c[2]
          /\ is_public = c[3]
    /\ upc = "idle"
    /\ InitUploadLocals

\* The event loop runs a request handler only while no process_conversion call is
\* between two of its awaits: convert is a plain call, and process_conversion awaits
\* only its first sleep and the futures of the uploads.
RequestsServed ==
    \/ run.pc = "none"
    \/ run.pc = "uploading" /\ upc \in {"uploading", "oss_uploading"}

\* upload_slide: the file is saved as UPLOAD_DIR / {job_id}{file_ext}, the job is
\* put in the registry and process_conversion is added to the background tasks
UploadSlideUpTo(n) ==
    /\ Len(tasks) < n
    /\ RequestsServed
    /\ \E job_id \in JobIds, file_ext \in FileExts, provider \in Providers,
          body \in FileBodies :
          /\ input_files' = Put(input_files, <<job_id, file_ext>>, body)
          /\ conversion_jobs' =
                Put(conversion_jobs, job_id,
                    NewJob(job_id, "File uploaded, queued for conversion"))
          /\ tasks' = Append(tasks, [job_id |-> job_id,
                                     input_path |-> <<job_id, file_ext>>,
                                     provider |-> provider])
    /\ UNCHANGED <<convVars, diskVars, upVars, next_task, run, requestVars>>

\* upload_slide, for the MaxJobs submissions of the model
UploadSlide == UploadSlideUpTo(MaxJobs)

\* upload_slide, when one job is followed to its end
UploadOneSlide == UploadSlideUpTo(1)

\* process_conversion up to its try: a missing or empty input file fails the job
\* and returns
ProcessStart ==
    /\ run.pc \in {"none", "escaped"}
    /\ next_task <= Len(tasks)
    /\ LET task == tasks[next_task]
           job_id == task.job_id
       IN  IF task.input_path \notin DOMAIN input_files
           THEN /\ conversion_jobs' =
                      [conversion_jobs EXCEPT
                          ![job_id].status = "failed",
                          ![job_id].message = Plain("Input file not found: {input_path}")]
                /\ run' = NoRun
           ELSE IF Len(input_files[task.input_path]) = 0
           THEN /\ conversion_jobs' =
                      [conversion_jobs EXCEPT
                          ![job_id].status = "failed",
                          ![job_id].message = Plain("Input file is empty: {input_path}")]
                /\ run' = NoRun
           ELSE /\ run' = [pc |-> "start", job_id |-> job_id,
                           input_path |-> task.input_path, provider |-> task.provider]
                /\ UNCHANGED conversion_jobs
    /\ next_task' = next_task + 1
    /\ UNCHANGED <<convVars, diskVars, upVars, tasks, input_files, requestVars>>

\* process_conversion, step 1: the job is converting at 10%, DZIConverter() is made
\* and convert is called with tile_size=256, overlap=1, format="jpeg"
JobConverting ==
    /\ run.pc = "start"
    /\ conversion_jobs' =
          [conversion_jobs EXCEPT
              ![run.job_id].status = "converting",
              ![run.job_id].progress = 10,
              ![run.job_id].message = Plain("Converting to DZI format...")]
    /\ image' \in JobImages
    /\ tile_size' = DefaultTileSize
    /\ overlap' = DefaultOverlap
    /\ format' = "jpeg"
    /\ use_vips' \in BOOLEAN
    /\ requires_vips' = RequiresVips(run.input_path[2])
    /\ cpc' = "convert"
    /\ pil' = NoLocals
    /\ level_image' = << >>
    /\ conv_error' = NoError
    /\ run' = [run EXCEPT !.pc = "converting"]
    /\ UNCHANGED <<diskVars, upVars, tasks, next_task, input_files, requestVars>>

\* convert raised: the handler of the exception's class fails the job
JobConvertRaised ==
    /\ run.pc = "converting"
    /\ cpc = "raised"
    /\ IF Caught(conv_error.kind)
       THEN /\ conversion_jobs' =
                  [conversion_jobs EXCEPT
                      ![run.job_id].status = "failed",
                      ![run.job_id].message =
                          FailureMessage(conv_error.kind, ConvErrorStr(conv_error))]
            /\ run' = [run EXCEPT !.pc = "cleanup"]
       ELSE /\ UNCHANGED conversion_jobs
            /\ run' = [run EXCEPT !.pc = "unwinding"]
    /\ UNCHANGED <<convVars, diskVars, upVars, tasks, next_task, input_files, requestVars>>

\* convert returned: progress 50, step 2: the job is uploading, the storage is made
\* and its upload_dzi is called
JobConverted ==
    /\ run.pc = "converting"
    /\ cpc = "returned"
    /\ conversion_jobs' =
          [conversion_jobs EXCEPT
              ![run.job_id].progress = 50,
              ![run.job_id].message =
                  Plain("DZI conversion completed. Uploading to cloud..."),
              ![run.job_id].status = "uploading"]
    /\ ResetUploadLocals
    /\ upc' = IF run.provider = "s3" THEN "enumerate" ELSE "oss_enumerate"
    /\ run' = [run EXCEPT !.pc = "uploading"]
    /\ UNCHANGED <<convVars, diskVars, storageVars, tasks, next_task, input_files,
                   requestVars>>

\* progress_callback(uploaded / total_files), as on_progress calls it
ProgressCallback ==
    /\ conversion_jobs' =
          UpdateProgress(conversion_jobs, run.job_id, UploadProgress(uploaded', total_files))
    /\ UNCHANGED <<tasks, next_task, run, input_files, requestVars>>

\* a turn of S3Storage.upload_dzi's loop in process_conversion
JobHandleResult ==
    /\ AwaitResult
    /\ ProgressCallback

\* OSSStorage.upload_dzi up to its loop: the files are collected, the level
\* directories in the order of their paths and the files of each as iterdir yields
\* them, and one upload_file call per file is queued on 20 threads
OssEnumerate ==
    /\ upc = "oss_enumerate"
    /\ \E file_listing \in FileListings(level_dirs) :
          LET dirs == SortByName(level_dirs)
              units(d) == [i \in 1..Len(file_listing[d]) |-> TileUnit(d, file_listing[d][i])]
              RECURSIVE all(_)
              all(i) == IF i > Len(dirs) THEN << >> ELSE units(dirs[i]) \o all(i + 1)
          IN  files_to_upload' =
                  <<DziUnit>> \o (IF thumbnail THEN <<ThumbnailUnit>> ELSE << >>)
                      \o (IF tiles_dir THEN all(1) ELSE << >>)
    /\ total_files' = Len(files_to_upload')
    /\ uploaded' = 0
    /\ max_workers' = 20
    /\ started' = 0
    /\ running' = {}
    /\ attempts' = [u \in 1..total_files' |-> 0]
    /\ results' = << >>
    /\ completed' = << >>
    /\ upc' = "oss_uploading"
    /\ UNCHANGED <<convVars, diskVars, storageVars, warnings, use_http_put, handled,
                   failed_uploads, progress_calls, error_types, outcome, pool>>
    /\ UNCHANGED <<jobVars, requestVars>>

\* a free thread of OSSStorage's executor takes the next queued call
OssWorkerStart ==
    /\ upc = "oss_uploading"
    /\ started < total_files
    /\ WorkerFree(Cardinality(running), max_workers)
    /\ started' = started + 1
    /\ running' = running \cup {started + 1}
    /\ attempts' = [attempts EXCEPT ![started + 1] = @ + 1]
    /\ UNCHANGED <<convVars, diskVars, storageVars, upc, enumVars, use_http_put,
                   max_workers, results, completed, loopVars, error_types, outcome, pool>>
    /\ UNCHANGED <<jobVars, requestVars>>

\* OSSStorage's upload_file on unit u returns True, or False when put_object_from_file
\* raised
OssWorkerFinish(u) ==
    /\ upc = "oss_uploading"
    /\ u \in running
    /\ \E ok \in BOOLEAN :
          results' = (u :> [success |-> ok, cloud_key |-> files_to_upload[u],
                            error_msg |-> NoMsg]) @@ results
    /\ running' = running \ {u}
    /\ completed' = Append(completed, u)
    /\ UNCHANGED <<convVars, diskVars, storageVars, upc, enumVars, use_http_put,
                   max_workers, started, attempts, loopVars, error_types, outcome, pool>>
    /\ UNCHANGED <<jobVars, requestVars>>

\* a turn of OSSStorage.upload_dzi's loop: the future is awaited, its value is
\* dropped, uploaded is raised and on_progress is called
OssAwaitResult ==
    /\ upc = "oss_uploading"
    /\ handled < total_files
    /\ handled < Len(completed)
    /\ uploaded' = uploaded + 1
    /\ handled' = handled + 1
    /\ progress_calls' = Append(progress_calls, <<uploaded', total_files>>)
    /\ ProgressCallback
    /\ UNCHANGED <<convVars, diskVars, storageVars, upc, enumVars, use_http_put,
                   max_workers, poolVars, failed_uploads, error_types, outcome, pool>>

\* OSSStorage.upload_dzi returns the two URLs
OssReturn ==
    /\ upc = "oss_uploading"
    /\ handled = total_files
    /\ outcome' = UploadUrls
    /\ upc' = "returned"
    /\ UNCHANGED <<convVars, diskVars, storageVars, enumVars, use_http_put, max_workers,
                   poolVars, loopVars, error_types, pool>>
    /\ UNCHANGED <<jobVars, requestVars>>

\* upload_dzi returned: step 3, the job is completed at 100% with its URLs
JobCompleted ==
    /\ run.pc = "uploading"
    /\ upc = "returned"
    /\ conversion_jobs' =
          [conversion_jobs EXCEPT
              ![run.job_id].status = "completed",
              ![run.job_id].progress = 100,
              ![run.job_id].message =
                  Plain("Conversion and upload completed successfully!"),
              ![run.job_id].dzi_url = outcome.dzi_url,
              ![run.job_id].thumbnail_url = outcome.thumbnail_url]
    /\ run' = [run EXCEPT !.pc = "cleanup"]
    /\ UNCHANGED <<convVars, diskVars, upVars, tasks, next_task, input_files, requestVars>>

\* upload_dzi raised: the inner handler sets f"Upload failed: {str(upload_error)}" and
\* raises again, and the outer handler of the exception's class sets its own message
JobUploadRaised ==
    /\ run.pc = "uploading"
    /\ upc = "raised"
    /\ LET inner == [conversion_jobs EXCEPT
                        ![run.job_id].status = "failed",
                        ![run.job_id].message =
                            JobMessage("Upload failed: ", UploadErrorStr(outcome))]
       IN  IF Caught(outcome.kind)
           THEN /\ conversion_jobs' =
                      [inner EXCEPT
                          ![run.job_id].status = "failed",
                          ![run.job_id].message =
                              FailureMessage(outcome.kind, UploadErrorStr(outcome))]
                /\ run' = [run EXCEPT !.pc = "cleanup"]
           ELSE /\ conversion_jobs' = inner
                /\ run' = [run EXCEPT !.pc = "unwinding"]
    /\ UNCHANGED <<convVars, diskVars, upVars, tasks, next_task, input_files, requestVars>>

\* finally: the input file and the output directory are removed, and
\* process_conversion returns, or raises the exception no handler caught
Cleanup ==
    /\ run.pc \in {"cleanup", "unwinding"}
    /\ input_files' = Drop(input_files, run.input_path)
    /\ dzi_file' = NoFile
    /\ tiles_dir' = FALSE
    /\ dir_files' = {}
    /\ level_dirs' = {}
    /\ tiles' = {}
    /\ thumbnail' = FALSE
    /\ run' = IF run.pc = "unwinding" THEN EscapedRun ELSE NoRun
    /\ image' = <<1, 1>>
    /\ use_vips' = FALSE
    /\ requires_vips' = FALSE
    /\ cpc' = "returned"
    /\ pil' = NoLocals
    /\ level_image' = << >>
    /\ conv_error' = NoError
    /\ ResetUploadLocals
    /\ upc' = "idle"
    /\ UNCHANGED <<tile_size, overlap, format, storageVars, conversion_jobs, tasks,
                   next_task, requestVars>>

\* the steps of a process_conversion call
RunStep ==
    \/ ProcessStart
    \/ JobConverting
    \/ Convert
    \/ ConvertWithVips
    \/ PilOpen
    \/ PilWriteDzi
    \/ PilLevel
    \/ PilTile
    \/ PilRaise
    \/ CreateThumbnail
    \/ JobConvertRaised
    \/ JobConverted
    \/ Enumerate
    \/ SelectBackend
    \/ Submit
    \/ WorkerStart
    \/ \E u \in 1..total_files : WorkerFinish(u)
    \/ JobHandleResult
    \/ Aggregate
    \/ OssEnumerate
    \/ OssWorkerStart
    \/ \E u \in 1..total_files : OssWorkerFinish(u)
    \/ OssAwaitResult
    \/ OssReturn
    \/ JobCompleted
    \/ JobUploadRaised
    \/ Cleanup

NextJob ==
    \/ UploadSlide
    \/ RunStep

SpecJob == InitJob /\ [][NextJob]_vars

NextRun ==
    \/ UploadOneSlide
    \/ RunStep

\* One job to its end.  The event loop runs every task that is ready and every
\* upload_file call returns (each transfer has a timeout), so a step of
\* process_conversion that stays possible is taken.
SpecRun == InitJob /\ [][NextRun]_vars /\ WF_vars(RunStep)

(***************************************************************************)
(* main.py: get_status.  A request is received at any moment; its handler  *)
(* runs at once when the event loop is free to run it, and otherwise when  *)
(* process_conversion next awaits.                                         *)
(***************************************************************************)
\* no response has been sent
NoResponse == [kind |-> "none"]

\* HTTPException(status_code=404, detail="Job not found")
JobNotFound == [kind |-> "404"]

\* get_status(job_id): the fields of the job's record as they are when the handler
\* runs, or 404
StatusResponse(job_id) ==
    IF job_id \notin DOMAIN conversion_jobs THEN JobNotFound
    ELSE [kind |-> "200",
          job_id |-> conversion_jobs[job_id].job_id,
          status |-> conversion_jobs[job_id].status,
          progress |-> conversion_jobs[job_id].progress,
          message |-> conversion_jobs[job_id].message,
          dzi_url |-> conversion_jobs[job_id].dzi_url,
          thumbnail_url |-> conversion_jobs[job_id].thumbnail_url]

\* a GET /api/status/{job_id} request reaches the server; `arrived` keeps the
\* job's status of that moment
StatusRequest ==
    /\ Len(polls) < MaxPolls
    /\ \E job_id \in JobIds :
          polls' = Append(polls,
                          [job_id |-> job_id,
                           arrived |-> IF job_id \in DOMAIN conversion_jobs
                                       THEN conversion_jobs[job_id].status
                                       ELSE "unknown",
                           response |-> IF RequestsServed THEN StatusResponse(job_id)
                                        ELSE NoResponse])
    /\ UNCHANGED <<convVars, diskVars, upVars, jobVars, chunkVars>>

\* get_status runs for a request that had to wait for the event loop
GetStatus ==
    /\ RequestsServed
    /\ \E i \in 1..Len(polls) :
          /\ polls[i].response = NoResponse
          /\ polls' = [polls EXCEPT ![i].response = StatusResponse(polls[i].job_id)]
    /\ UNCHANGED <<convVars, diskVars, upVars, jobVars, chunkVars>>

NextPoll ==
    \/ UploadOneSlide
    \/ RunStep
    \/ StatusRequest
    \/ GetStatus

\* one job to its end, and the status requests of its client
SpecPoll == InitJob /\ [][NextPoll]_vars

(***************************************************************************)
(* main.py: the chunked upload.  upload_chunk is followed as one step: its *)
(* only await reads the body of its own request.                           *)
(***************************************************************************)
\* upload_id of the sessions of the model
UploadIds == {"up-1", "up-2"}

\* filename of the sessions, as stem and suffix
UploadNames == {[stem |-> "slide", suffix |-> ".SVS"], [stem |-> "scan", suffix |-> ".png"]}

\* Path(filename).suffix.lower()
LowerSuffix(filename) ==
    IF filename.suffix = ".SVS" THEN ".svs"
    ELSE IF filename.suffix = ".PNG" THEN ".png"
    ELSE filename.suffix

\* the bytes of the chunk a client cuts at an index: two bytes at each index, or a
\* first chunk of five bytes
ChunkBodies(chunk_index) ==
    {<<2 * chunk_index + 1, 2 * chunk_index + 2>>}
        \cup (IF chunk_index = 0 THEN {<<11, 12, 13, 14, 15>>} ELSE {})

\* chunk_index of the requests: the indexes of a session, and one past them
ChunkIndexes == 0..MaxChunks

\* the upload_chunk requests of the model: every request of the first session, and
\* the only chunk of a second session with other bytes
ChunkRequests ==
    {[upload_id |-> "up-1", chunk_index |-> i, total_chunks |-> n, filename |-> f,
      body |-> b] :
        <<i, n, f, b>> \in {x \in ChunkIndexes \X (1..MaxChunks) \X UploadNames
                                     \X UNION {ChunkBodies(j) : j \in ChunkIndexes} :
                                x[4] \in ChunkBodies(x[1])}}
        \cup [upload_id : {"up-2"}, chunk_index : {0}, total_chunks : {1},
              filename : {[stem |-> "scan", suffix |-> ".png"]}, body : {<<6, 7, 8, 9>>}]

RECURSIVE MergeChunksReversed(_, _)
\* a variant of MergeChunks that writes the chunks from the last index to the first
MergeChunksReversed(files, total_chunks) ==
    IF total_chunks = 0 THEN << >>
    ELSE files[total_chunks - 1] \o MergeChunksReversed(files, total_chunks - 1)

RECURSIVE MergeChunks(_, _)
\* `for i in range(total_chunks): output_file.write(chunk_data)`: the bytes of
\* chunk_0 .. chunk_{total_chunks - 1}, in this order
MergeChunks(files, total_chunks) ==
    IF total_chunks = 0 THEN << >>
    ELSE MergeChunks(files, total_chunks - 1) \o files[total_chunks - 1]

RECURSIVE SizeOfChunks(_, _)
\* expected_total_size: the sum of st_size over chunk_0 .. chunk_{total_chunks - 1}
SizeOfChunks(files, total_chunks) ==
    IF total_chunks = 0 THEN 0
    ELSE SizeOfChunks(files, total_chunks - 1) + Len(files[total_chunks - 1])

\* len(upload_info['chunks']), the count upload_chunk and get_chunk_upload_status
\* compare with total_chunks to answer `complete`
ReceivedChunks(upload_info) == Cardinality(DOMAIN upload_info.chunks)

\* upload_chunk: the session is made at its first chunk, a chunk whose total_chunks
\* or filename differs from the session's is refused, the chunk is written as
\* chunks/{upload_id}/chunk_{chunk_index} and recorded with its size
UploadChunk ==
    /\ run.pc = "none"
    /\ \E request \in ChunkRequests :
          LET upload_id == request.upload_id
              chunk_index == request.chunk_index
              total_chunks == request.total_chunks
              filename == request.filename
              body == request.body
              sessions == IF upload_id \in DOMAIN chunk_uploads THEN chunk_uploads
                          ELSE Put(chunk_uploads, upload_id,
                                   [chunks |-> << >>, total_chunks |-> total_chunks,
                                    filename |-> filename,
                                    file_ext |-> LowerSuffix(filename)])
              upload_info == sessions[upload_id]
              dir == IF upload_id \in DOMAIN chunk_files THEN chunk_files[upload_id]
                     ELSE << >>
          IN  IF upload_info.total_chunks # total_chunks \/ upload_info.filename # filename
              THEN UNCHANGED chunkVars
              ELSE /\ chunk_files' = Put(chunk_files, upload_id, Put(dir, chunk_index, body))
                   /\ chunk_uploads' =
                         [sessions EXCEPT ![upload_id].chunks =
                             Put(@, chunk_index, [size |-> Len(body)])]
    /\ UNCHANGED <<convVars, diskVars, upVars, jobVars, polls>>

\* complete_chunk_upload: refused unless the session holds total_chunks chunks and
\* every chunk_0 .. chunk_{total_chunks - 1} is on disk; the chunks are merged into
\* UPLOAD_DIR / {job_id}{file_ext}, the merged size and the header are verified, the
\* chunk directory and the session are removed, the job is put in the registry and
\* process_conversion is added.  When shutil.rmtree raises, on whichever of the chunk
\* files, the files it had not removed and the session stay, a warning is printed
\* and the job is created all the same.
CompleteChunkUpload ==
    /\ Len(tasks) < MaxJobs
    /\ run.pc = "none"
    /\ \E upload_id \in UploadIds, provider \in Providers, job_id \in JobIds :
          IF upload_id \notin DOMAIN chunk_uploads
          THEN UNCHANGED <<jobVars, chunkVars>>
          ELSE LET upload_info == chunk_uploads[upload_id]
                   total_chunks == upload_info.total_chunks
                   received_chunks == ReceivedChunks(upload_info)
                   files == chunk_files[upload_id]
                   upload_path == <<job_id, upload_info.file_ext>>
                   expected_total_size == SizeOfChunks(files, total_chunks)
                   merged == MergeChunks(files, total_chunks)
                   total_size == Len(merged)
               IN  IF received_chunks # total_chunks
                   THEN UNCHANGED <<jobVars, chunkVars>>
                   ELSE IF \E i \in 0..(total_chunks - 1) : i \notin DOMAIN files
                   THEN UNCHANGED <<jobVars, chunkVars>>
                   ELSE \/ /\ input_files' = Drop(input_files, upload_path)
                           /\ UNCHANGED <<conversion_jobs, tasks, next_task, run, chunkVars>>
                        \/ IF Len(merged) # total_size \/ Len(merged) # expected_total_size
                              \/ Len(merged) < 4
                           THEN /\ input_files' = Put(input_files, upload_path, merged)
                                /\ UNCHANGED <<conversion_jobs, tasks, next_task, run,
                                               chunkVars>>
                           ELSE /\ input_files' = Put(input_files, upload_path, merged)
                                /\ \/ /\ chunk_files' = Drop(chunk_files, upload_id)
                                      /\ chunk_uploads' = Drop(chunk_uploads, upload_id)
                                   \/ \E left \in SUBSET DOMAIN files :
                                         /\ chunk_files' =
                                               Put(chunk_files, upload_id,
                                                   [i \in left |-> files[i]])
                                         /\ UNCHANGED chunk_uploads
                                /\ conversion_jobs' =
                                      Put(conversion_jobs, job_id,
                                          NewJob(job_id,
                                                 "File uploaded and merged, queued for conversion"))
                                /\ tasks' = Append(tasks, [job_id |-> job_id,
                                                           input_path |-> upload_path,
                                                           provider |-> provider])
                                /\ UNCHANGED <<next_task, run>>
    /\ UNCHANGED <<convVars, diskVars, upVars, polls>>

\* the requests that submit jobs, with no process_conversion call running
NextSubmit ==
    \/ UploadSlide
    \/ UploadChunk
    \/ CompleteChunkUpload

\* the server has started; its storage configuration plays no part in a submission
InitSubmit ==
    /\ InitJob
    /\ is_public

SpecSubmit == InitSubmit /\ [][NextSubmit]_vars

(***************************************************************************)
(* The Pyramid Builder's properties.                                       *)
(***************************************************************************)
\* ceil(log2(max(W, H))) + 1, by its defining inequalities
LevelCountOf(W, H) ==
    CHOOSE k \in 1..(Max(W, H) + 1) :
        /\ 2 ^ (k - 1) >= Max(W, H)
        /\ k = 1 \/ 2 ^ (k - 2) < Max(W, H)

\* ceil(a / b), by its defining inequalities
CeilQuot(a, b) == CHOOSE q \in 0..a : q * b >= a /\ (q = 0 \/ (q - 1) * b < a)

\* _convert_with_pil has run all of its level loop
PilDone == cpc \in {"thumbnail", "returned"} /\ ~use_vips

\* the names of the tile files in the directory of level L
FilesOfLevel(L) == {t.name : t \in {u \in tiles : u.dir = DecStr(L)}}

\* C1: for a W x H source, W, H >= 1, _convert_with_pil produces exactly
\* ceil(log2(max(W, H))) + 1 levels, numbered from 0 with no gap; 500 x 300 gives
\* 10 levels and 1 x 1 gives 1 level.
C1_LevelCount ==
    LET lc == Cardinality(DOMAIN level_image)
    IN  /\ DOMAIN level_image = 0..(lc - 1)
        /\ PilDone =>
              /\ lc = LevelCountOf(image[1], image[2])
              /\ image = <<500, 300>> => lc = 10
              /\ image = <<1, 1>> => lc = 1

C1_Witness ==
    /\ cpc = "returned"
    /\ ~use_vips
    /\ image = ScenarioImage
    /\ DOMAIN level_image = 0..9

\* C2: every level L is rendered at ceil(W / scale) x ceil(H / scale) pixels with
\* scale = 2^(levelCount - 1 - L), and the finest level at exactly (W, H).
C2_LevelSize ==
    LET lc == LevelCountOf(image[1], image[2])
    IN  /\ \A L \in DOMAIN level_image :
              /\ L <= lc - 1
              /\ level_image[L] = <<CeilQuot(image[1], 2 ^ (lc - 1 - L)),
                                    CeilQuot(image[2], 2 ^ (lc - 1 - L))>>
        /\ (lc - 1) \in DOMAIN level_image => level_image[lc - 1] = image
        /\ PilDone => (lc - 1) \in DOMAIN level_image

\* a finished pyramid with a level whose width is a rounded-up quotient
C2_Witness ==
    /\ cpc = "returned"
    /\ ~use_vips
    /\ \E L \in DOMAIN level_image :
          LET scale == 2 ^ (LevelCountOf(image[1], image[2]) - 1 - L)
          IN  /\ image[1] % scale # 0
              /\ level_image[L][1] >= 2
              /\ level_image[L][1] * scale > image[1]

\* a level whose tile loops have ended
LevelWritten(L) ==
    /\ L \in DOMAIN level_image
    /\ ~use_vips
    /\ L < pil.level \/ cpc \in {"thumbnail", "returned"}

\* C3: the directory of every written level L holds exactly
\* ceil(levelWidth / tileSize) * ceil(levelHeight / tileSize) tiles, one per (col, row)
\* of the grid; the finest level of 500 x 300 at tile size 256 holds 4 tiles.
C3_TileCount ==
    \A L \in DOMAIN level_image :
        LevelWritten(L) =>
            LET cols == CeilQuot(level_image[L][1], tile_size)
                rows == CeilQuot(level_image[L][2], tile_size)
            IN  /\ Cardinality(FilesOfLevel(L)) = cols * rows
                /\ FilesOfLevel(L) =
                      {TileName(c, r, format) : c \in 0..(cols - 1), r \in 0..(rows - 1)}
                /\ (image = <<500, 300>> /\ tile_size = 256 /\ L = 9)
                      => Cardinality(FilesOfLevel(L)) = 4

C3_Witness ==
    /\ cpc = "returned"
    /\ ~use_vips
    /\ image = ScenarioImage
    /\ tile_size = DefaultTileSize
    /\ Cardinality(FilesOfLevel(9)) = 4
    /\ Cardinality(FilesOfLevel(8)) = 1

\* C4: after convert returns through the PIL path, the level directories under
\* {baseName}_files are named exactly 0, 1, ..., levelCount - 1.
C4_LevelContiguity ==
    (cpc = "returned" /\ ~use_vips) =>
        LET lc == LevelCountOf(image[1], image[2])
        IN  /\ \A d \in level_dirs : IsDigit(d)
            /\ {ParseInt(d) : d \in level_dirs} = 0..(lc - 1)
            /\ Cardinality(level_dirs) = lc

C4_Witness ==
    /\ cpc = "returned"
    /\ ~use_vips
    /\ Cardinality(level_dirs) = 3
    /\ {ParseInt(d) : d \in level_dirs} = {0, 1, 2}

\* C5: the descriptor written by _convert_with_pil declares the source image's
\* Width and Height and the TileSize, Overlap and Format convert was called with.
C5_Descriptor ==
    /\ dzi_file # NoFile =>
          /\ dzi_file.Width = image[1]
          /\ dzi_file.Height = image[2]
          /\ dzi_file.TileSize = tile_size
          /\ dzi_file.Overlap = overlap
          /\ dzi_file.Format = format
    /\ (~use_vips /\ cpc \in {"pil_level", "pil_tile", "thumbnail", "returned"})
          => dzi_file # NoFile

C5_Witness ==
    /\ cpc = "returned"
    /\ dzi_file # NoFile
    /\ image[1] # image[2]
    /\ dzi_file.Width = image[1]
    /\ dzi_file.Height = image[2]

(***************************************************************************)
(* The Bulk Publisher's properties.                                        *)
(***************************************************************************)
\* the tiles of files_to_upload: what follows the descriptor and the thumbnail
TilePart ==
    SubSeq(files_to_upload, IF thumbnail THEN 3 ELSE 2, Len(files_to_upload))

\* upload_dzi has collected files_to_upload
Enumerated == upc \notin {"idle", "enumerate", "pool_submit", "pool_run"}

\* C6: files_to_upload is the descriptor, then the thumbnail when there is one, then
\* every tile of the numeric level directories exactly once, the levels in ascending
\* numeric order (2 before 10) and the files of one level in lexicographic order of
\* their names; the order of the directory listings makes no difference.
C6_UploadOrder ==
    Enumerated =>
        /\ files_to_upload[1] = DziUnit
        /\ thumbnail => files_to_upload[2] = ThumbnailUnit
        /\ \A i \in 1..Len(TilePart) : TilePart[i].kind = "tile"
        /\ {<<TilePart[i].dir, TilePart[i].name>> : i \in 1..Len(TilePart)}
              = {<<t.dir, t.name>> : t \in {u \in tiles : tiles_dir /\ IsDigit(u.dir)}}
        /\ Len(TilePart) = Cardinality({u \in tiles : tiles_dir /\ IsDigit(u.dir)})
        /\ \A i, j \in 1..Len(TilePart) :
              i < j =>
                 \/ ParseInt(TilePart[i].dir) < ParseInt(TilePart[j].dir)
                 \/ /\ TilePart[i].dir = TilePart[j].dir
                    /\ StrLess(TilePart[i].name, TilePart[j].name)
        /\ \A i, j \in 1..Len(TilePart) :
              (TilePart[i].dir = <<"2">> /\ TilePart[j].dir = <<"1", "0">>) => i < j

\* level 2 lists 10_0.jpeg before 2_0.jpeg, and level 2 comes before level 10
C6_Witness ==
    /\ upc = "backend"
    /\ files_to_upload =
          <<DziUnit, ThumbnailUnit,
            TileUnit(<<"2">>, <<"1", "0", "_", "0", ".", "j", "p", "e", "g">>),
            TileUnit(<<"2">>, <<"2", "_", "0", ".", "j", "p", "e", "g">>),
            TileUnit(<<"1", "0">>, <<"0", "_", "0", ".", "p", "n", "g">>)>>
    /\ files_to_upload[5].content_type = "image/png"
    /\ files_to_upload[4].content_type = "image/jpeg"

\* C7: no more than max_workers upload_file calls run at once, and max_workers is
\* 20 up to 1000 files, 30 above 1000, 50 above 10000 and 100 above 50000: it never
\* falls as the file count grows and never exceeds 100.
C7_BoundedWorkers ==
    /\ upc = "pool_run" =>
          /\ pool.running <= max_workers
          /\ max_workers <= 100
          /\ total_files <= 1000 => max_workers = 20
          /\ (total_files > 1000 /\ total_files <= 10000) => max_workers = 30
          /\ (total_files > 10000 /\ total_files <= 50000) => max_workers = 50
          /\ total_files > 50000 => max_workers = 100
    /\ \A n, m \in PoolTotals : n <= m => MaxWorkers(n) <= MaxWorkers(m)

\* every thread of a 30-thread executor is busy and calls are still queued
C7_Witness ==
    /\ upc = "pool_run"
    /\ total_files = 1001
    /\ pool.running = 30
    /\ pool.queued > 0
    /\ pool.settled > 0

\* upload_dzi has left its as_completed loop and returned or raised
UploadEnded == upc \in {"returned", "raised"} /\ outcome.kind \in {"return", "Exception"}

\* the units whose upload_file call returned a failure
FailedUnits == {u \in DOMAIN results : ~results[u].success}

\* C8: whatever units fail, every one of the N units is attempted exactly once and
\* settles, and when upload_dzi ends the successes plus the recorded failures are N.
C8_AllSettle ==
    /\ \A u \in DOMAIN attempts : attempts[u] <= 1
    /\ UploadEnded =>
          /\ DOMAIN attempts = 1..Len(files_to_upload)
          /\ \A u \in DOMAIN attempts : attempts[u] = 1
          /\ DOMAIN results = 1..Len(files_to_upload)
          /\ running = {}
          /\ uploaded = Cardinality(DOMAIN results \ FailedUnits)
          /\ Len(failed_uploads) = Cardinality(FailedUnits)
          /\ uploaded + Len(failed_uploads) = Len(files_to_upload)

\* the first unit to settle failed, and a later one was still uploaded
C8_Witness ==
    /\ upc = "raised"
    /\ outcome.kind = "Exception"
    /\ Len(files_to_upload) = 3
    /\ progress_calls[1] = <<0, 3>>
    /\ uploaded = 1
    /\ Len(failed_uploads) = 2
    /\ ~results[1].success

\* C9: upload_dzi raises its upload error exactly when a unit failed, only after
\* all N units have settled, reporting K failures out of N; with no failure it
\* returns the descriptor's and the thumbnail's URLs.
C9_AggregateError ==
    /\ outcome.kind = "Exception" =>
          /\ upc = "raised"
          /\ DOMAIN results = 1..Len(files_to_upload)
          /\ FailedUnits # {}
          /\ outcome.failed = Cardinality(FailedUnits)
          /\ outcome.total = Len(files_to_upload)
    /\ outcome.kind = "return" =>
          /\ upc = "returned"
          /\ DOMAIN results = 1..Len(files_to_upload)
          /\ FailedUnits = {}
          /\ outcome.dzi_url = DziUnit
          /\ outcome.thumbnail_url = ThumbnailUnit
    /\ (upc \in {"returned", "raised"} /\ outcome.kind # "ValueError")
          => outcome.kind = (IF FailedUnits = {} THEN "return" ELSE "Exception")

C9_Witness ==
    /\ upc = "raised"
    /\ outcome = [kind |-> "Exception", failed |-> 1, total |-> 3]
    /\ uploaded = 2

\* how many failures the error summary puts in the categories cats
Counted(cats) ==
    LET RECURSIVE Sum(_)
        Sum(S) == IF S = {} THEN 0
                  ELSE LET c == CHOOSE x \in S : TRUE IN error_types[c] + Sum(S \ {c})
    IN  Sum(cats \cap DOMAIN error_types)

\* the failures whose cause was `cause`
FailedBy(cause) == {u \in FailedUnits : results[u].error_msg.text = cause}

\* C10: when K of N units fail the breakdown by category sums to K, a missing local
\* file is counted as a not-found failure, a credential or permission rejection as
\* an auth failure, and a transport failure as a network failure.
C10_Breakdown ==
    outcome.kind = "Exception" =>
        /\ Counted(DOMAIN error_types) = Cardinality(FailedUnits)
        /\ Counted({"NotFound"}) = Cardinality(FailedBy("missing"))
        /\ Counted({"AccessDenied", "Authentication"}) = Cardinality(FailedBy("denied"))
        /\ Counted({"Network"}) = Cardinality(FailedBy("timeout"))

\* C11: on_progress is called exactly N times, once after each unit settles whether
\* it was uploaded or failed, the i-th call with i / N, so the last call is made
\* with N / N = 1.0 even when units failed.
C11_Progress ==
    /\ Len(progress_calls) = handled
    /\ UploadEnded =>
          /\ Len(progress_calls) = Len(files_to_upload)
          /\ \A i \in 1..Len(progress_calls) :
                progress_calls[i] = <<i, Len(files_to_upload)>>
          /\ progress_calls[Len(progress_calls)][1] = progress_calls[Len(progress_calls)][2]

\* upload_dzi has chosen its way to upload, or refused to
BackendChosen == upc \in {"submit", "uploading", "returned", "raised"}

\* C12: with credentials meaning both the access key and the secret key, upload_dzi
\* uploads by anonymous HTTP PUT exactly when there are no credentials and the bucket
\* is public, with the credentialed client whenever there are credentials, and with
\* neither credentials nor the public flag it raises its configuration error before
\* any upload_file call is queued or started.
C12_BackendSelection ==
    /\ BackendChosen =>
          /\ use_http_put <=> (~(access_key /\ secret_key) /\ is_public)
          /\ (access_key /\ secret_key) => (~use_http_put /\ outcome.kind # "ValueError")
          /\ outcome.kind = "ValueError" <=> (~(access_key /\ secret_key) /\ ~is_public)
    /\ outcome.kind = "ValueError" =>
          /\ upc = "raised"
          /\ started = 0
          /\ attempts = << >>
          /\ results = << >>
          /\ progress_calls = << >>
    /\ started > 0 => (use_http_put \/ (access_key /\ secret_key))

\* three files were found, only an access key is set, the bucket is private
C12_Witness ==
    /\ upc = "raised"
    /\ outcome = ConfigError
    /\ access_key
    /\ ~secret_key
    /\ ~is_public
    /\ total_files = 3
    /\ started = 0

\* C21: the values on_progress is called with during one S3Storage.upload_dzi call,
\* each uploaded / total_files, never fall from one call to the next and all lie
\* between 0 and 1, in whatever order the uploads complete and whichever units fail.
C21_ProgressMonotone ==
    /\ \A i \in 1..Len(progress_calls) :
          /\ progress_calls[i][2] > 0
          /\ 0 <= progress_calls[i][1]
          /\ progress_calls[i][1] <= progress_calls[i][2]
    /\ \A i, j \in 1..Len(progress_calls) :
          i < j => progress_calls[i][1] * progress_calls[j][2]
                      <= progress_calls[j][1] * progress_calls[i][2]

\* three units settled in another order than they were queued, the second of them
\* to settle failed, and the value 1/3 was reported twice
C21_Witness ==
    /\ UploadEnded
    /\ completed = <<3, 1, 2>>
    /\ ~results[1].success
    /\ progress_calls = <<<<1, 3>>, <<1, 3>>, <<2, 3>>>>

\* the numbers of the numeric level directories upload_dzi finds
LevelsFound == {ParseInt(d) : d \in {x \in level_dirs : IsDigit(x)}}

\* C22: upload_dzi warns of missing levels exactly when the numeric level
\* directories it finds are not 0, 1, ..., up to the highest level found; it warns
\* too when level 0, or a run of the lowest levels, is what is missing.
C22_MissingLevelWarning ==
    (Enumerated /\ tiles_dir /\ LevelsFound # {}) =>
        LET highest == CHOOSE n \in LevelsFound : \A m \in LevelsFound : m <= n
        IN  (warnings.missing # {}) <=> (LevelsFound # 0..highest)

\* C24: once upload_dzi has observed a cancellation, no upload unit that had not
\* begun is begun, and the units already running are left to return.
C24_Cancellation ==
    [][upc = "cancelling" =>
          /\ started' = started
          /\ attempts' = attempts
          /\ running' \subseteq running]_vars

(***************************************************************************)
(* The pipeline's properties.                                              *)
(***************************************************************************)
\* process_conversion has recorded the end of its job and is about to clean up
RunEnded == run.pc = "cleanup"

\* C13: a job is recorded as completed only if every one of its upload units was
\* uploaded, with S3Storage and with OSSStorage alike: when a unit failed, the job
\* ends failed.
C13_CompletedOnlyIfAllUploaded ==
    (RunEnded /\ run.job_id \in DOMAIN conversion_jobs) =>
        /\ conversion_jobs[run.job_id].status = "completed" =>
              /\ DOMAIN results = 1..Len(files_to_upload)
              /\ FailedUnits = {}
        /\ FailedUnits # {} => conversion_jobs[run.job_id].status = "failed"

\* the values ConversionStatus lists for status
JobStatuses == {"pending", "converting", "uploading", "completed", "failed"}

\* C14: in every state every record of the registry has one of the five statuses
\* and an integer progress from 0 to 100.
C14_RegistryWellFormed ==
    \A id \in DOMAIN conversion_jobs :
        /\ conversion_jobs[id].status \in JobStatuses
        /\ conversion_jobs[id].progress \in 0..100

\* one job has completed at 100, the other is uploading and its last upload
\* progress, 50 + 50, was clamped to 99
C14_Witness ==
    /\ DOMAIN conversion_jobs = JobIds
    /\ \E id \in JobIds : /\ conversion_jobs[id].status = "completed"
                          /\ conversion_jobs[id].progress = 100
    /\ \E id \in JobIds : /\ conversion_jobs[id].status = "uploading"
                          /\ conversion_jobs[id].progress = 99
                          /\ run.job_id = id
                          /\ uploaded = total_files

\* the one job of SpecRun has been submitted
Submitted == Len(tasks) = 1

\* its process_conversion call has returned without raising, and its record says
\* completed or failed
EndedInRegistry ==
    /\ Submitted
    /\ next_task = 2
    /\ run = NoRun
    /\ conversion_jobs[tasks[1].job_id].status \in {"completed", "failed"}

\* C15: the process_conversion call of a submitted job ends, with the job completed
\* or failed: an exception of convert or of upload_dzi is recorded as status failed
\* with a message, and none leaves process_conversion.
C15_RunEnds ==
    /\ Submitted ~> EndedInRegistry
    /\ [](run.pc \notin {"unwinding", "escaped"})
    /\ [](RunEnded => conversion_jobs[run.job_id].status \in {"completed", "failed"})
    /\ []((RunEnded /\ (cpc = "raised" \/ upc = "raised")) =>
              /\ conversion_jobs[run.job_id].status = "failed"
              /\ conversion_jobs[run.job_id].message.str.text # "")

\* PIL could not read the source: the job has failed and the call is about to return
C15_Witness ==
    /\ RunEnded
    /\ cpc = "raised"
    /\ conv_error = PilFailed
    /\ conversion_jobs[run.job_id].status = "failed"

\* C16: when convert raises, the job fails without having been uploading, no upload
\* unit is attempted, and the job's message is the text of convert's exception with
\* nothing added and nothing removed.
C16_ConvertErrorVerbatim ==
    /\ (run.pc = "converting" /\ cpc = "raised") =>
          conversion_jobs[run.job_id].status # "uploading"
    /\ (RunEnded /\ cpc = "raised") =>
          /\ conversion_jobs[run.job_id].status = "failed"
          /\ upc = "idle"
          /\ attempts = << >>
          /\ conversion_jobs[run.job_id].message = JobMessage("", ConvErrorStr(conv_error))

\* the words of a message that tell its reader to fix credentials or permissions
HintWords == {"credentials", "permissions", "AWS_ACCESS_KEY_ID", "IAM"}

\* C17: when a job fails because upload units failed, its final message names the
\* category of the failures, and when units were rejected for credentials or
\* permissions the message hints that these must be fixed.
C17_MessageNamesCategory ==
    (RunEnded /\ upc = "raised" /\ outcome.kind = "Exception") =>
        LET message == conversion_jobs[run.job_id].message
        IN  /\ conversion_jobs[run.job_id].status = "failed"
            /\ \E category \in DOMAIN error_types : category \in message.str.words
            /\ FailedBy("denied") # {} => message.str.words \cap HintWords # {}

\* C23: a get_status request received while a job is converting or uploading is
\* answered before that stage ends, with the job still in the stage, and no
\* response mixes two updates of the record: none says completed with a progress
\* below 100, or uploading with a progress below 50.
C23_StatusPolling ==
    \A i \in 1..Len(polls) :
        LET poll == polls[i]
        IN  /\ poll.arrived \in {"converting", "uploading"} =>
                  IF poll.response = NoResponse
                  THEN conversion_jobs[poll.job_id].status = poll.arrived
                  ELSE poll.response.status = poll.arrived
            /\ poll.response.kind = "200" =>
                  /\ poll.response.status = "completed" => poll.response.progress = 100
                  /\ poll.response.status = "uploading" => poll.response.progress >= 50

\* the steps of a job's status: forward along pending, converting, uploading,
\* completed, and to failed from the three that are not final
StatusSteps ==
    {<<"pending", "converting">>, <<"converting", "uploading">>,
     <<"uploading", "completed">>, <<"pending", "failed">>,
     <<"converting", "failed">>, <<"uploading", "failed">>}

\* C25: the status of a job of the registry changes only by one of StatusSteps:
\* completed and failed are final, whatever handler or process_conversion call
\* takes the step.
C25_StatusForward ==
    [][\A id \in DOMAIN conversion_jobs :
          /\ id \in DOMAIN conversion_jobs'
          /\ \/ conversion_jobs'[id].status = conversion_jobs[id].status
             \/ <<conversion_jobs[id].status, conversion_jobs'[id].status>> \in StatusSteps
      ]_vars

\* C26: in every state the progress of a job is 100 exactly when its status is
\* completed, and within 50..99 while its status is uploading (update_progress
\* keeps the updates of the upload at 99 or less); the progress of a job never
\* falls.
C26_ProgressAndStatus ==
    /\ [](\A id \in DOMAIN conversion_jobs :
             /\ conversion_jobs[id].progress = 100
                   <=> conversion_jobs[id].status = "completed"
             /\ conversion_jobs[id].status = "uploading"
                   => conversion_jobs[id].progress \in 50..99)
    /\ [][\A id \in DOMAIN conversion_jobs \cap DOMAIN conversion_jobs' :
              conversion_jobs'[id].progress >= conversion_jobs[id].progress]_vars

\* the unit `unit` is in files_to_upload and its upload_file call returned success
Uploaded(unit) ==
    \E u \in DOMAIN results : files_to_upload[u] = unit /\ results[u].success

\* C27: when a job is completed its descriptor URL is that of the descriptor this
\* job uploaded and its thumbnail URL that of a thumbnail this job uploaded; a job
\* that is not completed has neither URL.
C27_ResultUrls ==
    /\ (RunEnded /\ conversion_jobs[run.job_id].status = "completed") =>
          /\ conversion_jobs[run.job_id].dzi_url = DziUnit
          /\ Uploaded(DziUnit)
          /\ conversion_jobs[run.job_id].thumbnail_url = ThumbnailUnit
          /\ Uploaded(ThumbnailUnit)
    /\ \A id \in DOMAIN conversion_jobs :
          conversion_jobs[id].status # "completed" =>
              /\ conversion_jobs[id].dzi_url = NoUrl
              /\ conversion_jobs[id].thumbnail_url = NoUrl

\* the process_conversion call of the one job of SpecRun has returned or raised
RunReturned == Submitted /\ next_task = 2 /\ run.pc \in {"none", "escaped"}

\* nothing is left of the job's output directory
OutputDirRemoved ==
    /\ dzi_file = NoFile
    /\ ~tiles_dir
    /\ level_dirs = {}
    /\ tiles = {}
    /\ ~thumbnail

\* C28: when the process_conversion call of a job has ended, the job is completed
\* or failed, its input file is no longer in UPLOAD_DIR and its output directory is
\* no longer in OUTPUT_DIR; also when the call ended early on a missing or an empty
\* input file.
C28_FilesRemoved ==
    RunReturned =>
        /\ conversion_jobs[tasks[1].job_id].status \in {"completed", "failed"}
        /\ tasks[1].input_path \notin DOMAIN input_files
        /\ OutputDirRemoved

(***************************************************************************)
(* The submissions' properties.                                            *)
(***************************************************************************)
\* OUTPUT_DIR / job_id, the output directory process_conversion gives a task
OutputDirOf(task) == task.job_id

\* C18: whatever jobs were submitted through upload_slide and complete_chunk_upload,
\* no two of them have the same job id, the same input path or the same output
\* directory, so no submission overwrites the record of an earlier job.
C18_UniqueJobs ==
    \A i, j \in 1..Len(tasks) :
        i # j =>
            /\ tasks[i].job_id # tasks[j].job_id
            /\ tasks[i].input_path # tasks[j].input_path
            /\ OutputDirOf(tasks[i]) # OutputDirOf(tasks[j])

\* where the bytes of chunk i begin in the concatenation of chunks 0 .. i - 1
OffsetOf(sizes, i) ==
    LET RECURSIVE Sum(_)
        Sum(k) == IF k = 0 THEN 0 ELSE Sum(k - 1) + sizes[k - 1].size
    IN  Sum(i)

\* a step of complete_chunk_upload that creates a job
JobFromChunks ==
    /\ Len(tasks') = Len(tasks) + 1
    /\ conversion_jobs'[tasks'[Len(tasks')].job_id].message
          = Plain("File uploaded and merged, queued for conversion")

\* C19: complete_chunk_upload creates a job only from a session all of whose chunks
\* 0 .. total_chunks - 1 have been received, in whatever order; the merged file is
\* the chunks one after the other in ascending index order and has as many bytes as
\* the chunks together; a step that creates no job leaves the registry as it was.
C19_ChunkedUpload ==
    [][/\ JobFromChunks =>
            \E upload_id \in DOMAIN chunk_uploads :
                LET upload_info == chunk_uploads[upload_id]
                    n == upload_info.total_chunks
                    task == tasks'[Len(tasks')]
                    merged == input_files'[task.input_path]
                IN  /\ \A i \in 0..(n - 1) : i \in DOMAIN upload_info.chunks
                    /\ upload_id \in DOMAIN chunk_files
                    /\ \A i \in 0..(n - 1) : i \in DOMAIN chunk_files[upload_id]
                    /\ Len(merged) = OffsetOf(upload_info.chunks, n)
                    /\ \A i \in 0..(n - 1) :
                          SubSeq(merged, OffsetOf(upload_info.chunks, i) + 1,
                                 OffsetOf(upload_info.chunks, i + 1))
                              = chunk_files[upload_id][i]
                    /\ task.job_id \in DOMAIN conversion_jobs'
                    /\ conversion_jobs'[task.job_id].status = "pending"
       /\ Len(tasks') = Len(tasks) =>
              /\ conversion_jobs' = conversion_jobs
              /\ DOMAIN chunk_uploads \subseteq DOMAIN chunk_uploads'
              /\ DOMAIN chunk_files \subseteq DOMAIN chunk_files'
      ]_vars

\* a job was made of the two chunks of a session, chunk 0 before chunk 1, while a
\* chunk of the other session waits
C19_Witness ==
    /\ Len(tasks) = 1
    /\ tasks[1].input_path[2] = ".svs"
    /\ tasks[1].input_path \in DOMAIN input_files
    /\ input_files[tasks[1].input_path] = <<1, 2, 3, 4>>
    /\ "up-1" \notin DOMAIN chunk_uploads
    /\ "up-2" \in DOMAIN chunk_uploads
    /\ conversion_jobs[tasks[1].job_id].status = "pending"

\* a step of complete_chunk_upload that fails after it began to merge
MergeFailed == tasks' = tasks /\ input_files' # input_files

\* C29: a complete_chunk_upload that creates a job removes the session it made the
\* job of, and its chunks, so that the next complete_chunk_upload for the same
\* upload_id finds no session and creates no job; a complete_chunk_upload that
\* fails leaves every session and every received chunk as it was.
C29_OneJobPerSession ==
    [][/\ JobFromChunks =>
            /\ Cardinality(DOMAIN chunk_uploads \ DOMAIN chunk_uploads') = 1
            /\ DOMAIN chunk_files' = DOMAIN chunk_uploads'
            /\ \A id \in DOMAIN chunk_uploads' :
                  /\ id \in DOMAIN chunk_uploads
                  /\ chunk_uploads'[id] = chunk_uploads[id]
                  /\ chunk_files'[id] = chunk_files[id]
       /\ MergeFailed =>
            /\ chunk_uploads' = chunk_uploads
            /\ chunk_files' = chunk_files
      ]_vars

\* C30: the received-chunk count of a session equals its total_chunks only when
\* every index 0 .. total_chunks - 1 has been received: an index received twice is
\* counted once, and an index outside 0 .. total_chunks - 1 is not counted.
C30_CompleteMeansAllChunks ==
    \A upload_id \in DOMAIN chunk_uploads :
        LET upload_info == chunk_uploads[upload_id]
            indexes == 0..(upload_info.total_chunks - 1)
        IN  /\ ReceivedChunks(upload_info) = upload_info.total_chunks
                  => indexes \subseteq DOMAIN upload_info.chunks
            /\ ReceivedChunks(upload_info)
                  = Cardinality(DOMAIN upload_info.chunks \cap indexes)

(***************************************************************************)
(* The tiles' rectangles.                                                  *)
(***************************************************************************)
\* the smaller of a and b, by its defining property
Least(a, b) == CHOOSE m \in {a, b} : m <= a /\ m <= b

\* C20: the tile at (col, row) of a level is the crop from (col * tileSize,
\* row * tileSize) to (min(col * tileSize + tileSize + overlap, levelWidth),
\* min(row * tileSize + tileSize + overlap, levelHeight)): its width and its height
\* are between 1 and tileSize + overlap and it ends within the level.
C20_TileBox ==
    \A t \in tiles :
        (~use_vips /\ IsDigit(t.dir) /\ ParseInt(t.dir) \in DOMAIN level_image) =>
            LET size == level_image[ParseInt(t.dir)]
            IN  /\ \E col \in 0..size[1], row \in 0..size[2] :
                      /\ t.name = TileName(col, row, format)
                      /\ t.box[1] = col * tile_size
                      /\ t.box[2] = row * tile_size
                      /\ t.box[3] = Least(col * tile_size + tile_size + overlap, size[1])
                      /\ t.box[4] = Least(row * tile_size + tile_size + overlap, size[2])
                /\ t.box[3] - t.box[1] \in 1..(tile_size + overlap)
                /\ t.box[4] - t.box[2] \in 1..(tile_size + overlap)
                /\ t.box[1] >= 0 /\ t.box[2] >= 0
                /\ t.box[3] <= size[1]
                /\ t.box[4] <= size[2]

\* one level holds a tile as wide as tileSize + overlap and, to its right, an edge
\* tile that was cut at the level's width
C20_Witness ==
    /\ cpc = "returned"
    /\ ~use_vips
    /\ overlap = 1
    /\ \E t, u \in tiles :
          /\ t.dir = u.dir
          /\ t.box[1] = 0
          /\ t.box[3] - t.box[1] = tile_size + overlap
          /\ u.box[1] = tile_size
          /\ u.box[3] - u.box[1] < tile_size + overlap
          /\ u.box[3] = level_image[ParseInt(u.dir)][1]

====
